---- MODULE Spec2Model ----
(***************************************************************************)
(* Child growth / nutrition backend: the child registry, the growth-record *)
(* ingestor (POST /{child_id}/records), the history and trend readers and  *)
(* the ML adapters (prediction, recommendation, chatbot) with their        *)
(* rule-based fallbacks.                                                   *)
(*                                                                         *)
(* Numbers.  Python floats are kept as scaled integers:                    *)
(*   weight_kg, MUAC, head circumference     tenths      (112 = 11.2)      *)
(*   Z-scores                                tenths      (-25 = -2.5)      *)
(*   percentiles, ages, diet scores          units                        *)
(*   BMI                                     hundredths  (1587 = 15.87)    *)
(* height_cm alone keeps a decimal exponent, [m |-> 84, e |-> 0] being     *)
(* 84 * 10^0 cm, because the BMI computation squares height_cm / 100 and   *)
(* an IEEE-754 double product below the smallest subnormal is 0.0.         *)
(* Optional values are <<>> (None) or <<v>>.                               *)
(***************************************************************************)
EXTENDS Integers, Sequences, FiniteSets, TLC

\* ------------------------------------------------------------------ bounds
\* rows the children and growth_records tables may hold
MaxChildren == 1
MaxRecords == 1

\* ------------------------------------------------------- optional values
None == <<>>
Some(v) == <<v>>
IsNone(x) == x = <<>>
Val(x) == x[1]

\* Python `x or default` on an Optional[float]: None and 0.0 are both falsy.
PyOr(x, default) == IF IsNone(x) \/ Val(x) = 0 THEN default ELSE Val(x)

\* ---------------------------------------------------------------- floats
\* The smallest positive double is 2^-1074, about 4.9 * 10^-324.
DoubleMinExp10 == -324
Float(m, e) == [m |-> m, e |-> e]
\* Mantissas of the model stay below 10^MantissaDigits.
MantissaDigits == 3
FloatGtZero(x) == x.m > 0
\* x <= n for a whole number n >= 1 (exponents of the model are <= 0)
FloatLeInt(x, n) == IF x.e = 0 THEN x.m <= n ELSE TRUE
\* x < y and x > y for non-negative floats whose exponents are equal or differ
\* by more than the mantissa width
FloatLt(x, y) ==
    IF x.e = y.e THEN x.m < y.m
    ELSE IF x.m = 0 THEN y.m > 0
    ELSE IF y.m = 0 THEN FALSE
    ELSE x.e < y.e
FloatGt(x, y) == FloatLt(y, x)
\* (x / 100) ** 2 is 0.0: the exact square, below 10^(2(e-2) + 2*MantissaDigits),
\* lies under the smallest subnormal
SquareOfHundredthIsZero(x) ==
    \/ x.m = 0
    \/ 2 * (x.e - 2) + 2 * MantissaDigits <= DoubleMinExp10

\* n / d rounded to the nearest integer, ties to even (Python's round)
RoundHalfEven(n, d) ==
    LET q == n \div d
        r == n % d
    IN  IF 2 * r < d THEN q
        ELSE IF 2 * r > d THEN q + 1
        ELSE IF q % 2 = 0 THEN q ELSE q + 1

\* ------------------------------------------------------------ identities
UserIds == {"U", "V"}
Languages == {"english", "swahili"}
Sexes == {"Male", "Female"}
\* child ids the requests may name; the last one is never allocated
ChildIds == 1 .. (MaxChildren + 1)
\* the request slots: the handlers of one client, one request after another
ReqIds == {"r1"}

MalnutritionStatuses == {"Normal", "Stunting", "Underweight", "Overweight", "Severe"}
DevelopmentalRisks == {"No Risk", "At Risk", "High Risk"}

ZScoreKeys ==
    {"weight_for_age_zscore", "height_for_age_zscore", "bmi_for_age_zscore",
     "muac_for_age_zscore"}
PercentileKeys ==
    {"weight_for_age_percentile", "height_for_age_percentile",
     "bmi_for_age_percentile", "muac_for_age_percentile"}

\* --------------------------------------------------------------- payloads
BasePayload ==
    [age_months |-> 24, weight_kg |-> 112, height_cm |-> Float(84, 0),
     muac_cm |-> None, diet_diversity_score |-> 5, recent_infection |-> FALSE,
     weight_for_age_zscore |-> None, height_for_age_zscore |-> None,
     bmi_for_age_zscore |-> None, muac_for_age_zscore |-> None,
     weight_for_age_percentile |-> None, height_for_age_percentile |-> None,
     bmi_for_age_percentile |-> None, muac_for_age_percentile |-> None]

\* The request bodies of POST /{child_id}/records the model draws from.
Payloads ==
    { BasePayload,
      \* Z-scores and percentiles supplied, two of them with the value 0
      [BasePayload EXCEPT !.age_months = 18, !.weight_kg = 70,
                          !.muac_cm = Some(135),
                          !.weight_for_age_zscore = Some(0),
                          !.height_for_age_zscore = Some(-35),
                          !.weight_for_age_percentile = Some(0),
                          !.height_for_age_percentile = Some(3)],
      \* BMI 30
      [BasePayload EXCEPT !.age_months = 30, !.weight_kg = 300,
                          !.height_cm = Float(100, 0), !.recent_infection = TRUE],
      \* a positive height whose square underflows
      [BasePayload EXCEPT !.height_cm = Float(1, -170)],
      \* rejected by validation
      [BasePayload EXCEPT !.height_cm = Float(0, 0)] }

OptInRange(x, lo, hi) == IsNone(x) \/ (lo <= Val(x) /\ Val(x) <= hi)

\* pydantic validation of GrowthRecordCreate
ValidGrowthRecordCreate(p) ==
    /\ 0 <= p.age_months /\ p.age_months <= 60
    /\ 0 < p.weight_kg /\ p.weight_kg <= 500
    /\ FloatGtZero(p.height_cm) /\ FloatLeInt(p.height_cm, 150)
    /\ IsNone(p.muac_cm) \/ (0 < Val(p.muac_cm) /\ Val(p.muac_cm) <= 300)
    /\ 0 <= p.diet_diversity_score /\ p.diet_diversity_score <= 10
    /\ \A k \in ZScoreKeys : OptInRange(p[k], -50, 50)
    /\ \A k \in PercentileKeys : OptInRange(p[k], 0, 100)

\* ------------------------------------------------------------------- BMI
\* calculate_bmi: height_m = height_cm / 100; round(weight_kg / height_m ** 2, 2).
\* ok = FALSE is the ZeroDivisionError the division raises on a 0.0 divisor.
\* With e = 0: (w/10) / (m/100)^2 in hundredths is w * 10^5 / m^2.
calculate_bmi(weight_kg, height_cm) ==
    IF SquareOfHundredthIsZero(height_cm)
    THEN [ok |-> FALSE, value |-> 0]
    ELSE [ok |-> TRUE,
          value |-> RoundHalfEven(weight_kg * 100000, height_cm.m * height_cm.m)]

\* =================================================================== ML
\* A model slot of MLModels after load_models: None ("absent") or an object.
ModelSlots == {"absent", "loaded"}

malnutrition_labels ==
    (0 :> "Normal" @@ 1 :> "Stunting" @@ 2 :> "Underweight" @@ 3 :> "Overweight"
       @@ 4 :> "Severe")
risk_labels == (0 :> "No Risk" @@ 1 :> "At Risk" @@ 2 :> "High Risk")

\* dict.get(key, default)
DictGet(d, key, default) == IF key \in DOMAIN d THEN d[key] ELSE default

\* ------------------------------------------------------- feature vectors
BaseFeatures ==
    [Age_Months |-> 24, Sex |-> "Male", Weight_kg |-> 112, Height_cm |-> Float(84, 0),
     HeadCircumference_cm |-> 450, MUAC_cm |-> 140, BMI |-> 1587,
     Diet_Diversity_Score |-> 5, Recent_Infection |-> "No",
     Weight_for_Age_ZScore |-> 0, Height_for_Age_ZScore |-> 0,
     BMI_for_Age_ZScore |-> 0, MUAC_for_Age_ZScore |-> 0,
     Weight_for_Age_Percentile |-> 50, Height_for_Age_Percentile |-> 50,
     BMI_for_Age_Percentile |-> 50, MUAC_for_Age_Percentile |-> 50]

\* Z-scores around the thresholds -2 and -3, BMI around 25
ZScoreVals == {-35, -30, -25, -20, 0}
BmiVals == {1587, 2500, 2600}
\* the feature vectors handed to the adapter
FeatureVectors ==
    { [BaseFeatures EXCEPT !.Height_for_Age_ZScore = h, !.Weight_for_Age_ZScore = w,
                           !.BMI = b, !.Sex = s, !.Age_Months = a]
        : h \in ZScoreVals, w \in ZScoreVals, b \in BmiVals, s \in Sexes,
          a \in {0, 24} }

\* ---------------------------------------------- the opaque classifier
\* What the loaded prediction model does on one call: it raises, or returns
\* a list, a tuple, a 2-D array of shape (1, k), a 1-D array, or a scalar,
\* holding the integer codes vals.
CodeVals == -1 .. 5
PredictionBehaviours ==
    {[kind |-> "raise", vals |-> <<>>]}
      \cup {[kind |-> k, vals |-> <<>>] : k \in {"list", "tuple", "array2d", "array1d"}}
      \cup {[kind |-> k, vals |-> <<c>>]
              : k \in {"list", "tuple", "array2d", "array1d", "scalar"}, c \in CodeVals}
      \cup {[kind |-> k, vals |-> <<c, d>>]
              : k \in {"list", "tuple", "array2d", "array1d"},
                c \in CodeVals, d \in CodeVals}
NoBehaviour == [kind |-> "raise", vals |-> <<>>]
\* an absent model is never called
BehavioursOf(model) == IF model = "absent" THEN {NoBehaviour} ELSE PredictionBehaviours

Prediction(status, risk) == [malnutrition_status |-> status, developmental_risk |-> risk]

\* _infer_risk_from_malnutrition
_infer_risk_from_malnutrition(malnutrition_pred) ==
    IF malnutrition_pred \in {4} THEN 2
    ELSE IF malnutrition_pred \in {1, 2, 3} THEN 1
    ELSE 0

\* a variant that tests the Severe thresholds first
FallbackSevereFirst(features) ==
    LET bmi == features.BMI
        height_zscore == features.Height_for_Age_ZScore
        weight_zscore == features.Weight_for_Age_ZScore
        malnutrition_status ==
            IF weight_zscore < -30 \/ height_zscore < -30 THEN "Severe"
            ELSE IF height_zscore < -20 THEN "Stunting"
            ELSE IF weight_zscore < -20 THEN "Underweight"
            ELSE IF bmi > 2500 THEN "Overweight"
            ELSE "Normal"
        developmental_risk ==
            IF malnutrition_status \in {"Severe"} THEN "High Risk"
            ELSE IF malnutrition_status \in {"Stunting", "Underweight", "Overweight"}
                 THEN "At Risk"
            ELSE "No Risk"
    IN  Prediction(malnutrition_status, developmental_risk)
\* _get_fallback_prediction: the ordered threshold rules
_get_fallback_prediction(features) ==
    LET bmi == features.BMI
        height_zscore == features.Height_for_Age_ZScore
        weight_zscore == features.Weight_for_Age_ZScore
        malnutrition_status ==
            IF height_zscore < -20 THEN "Stunting"
            ELSE IF weight_zscore < -20 THEN "Underweight"
            ELSE IF bmi > 2500 THEN "Overweight"
            ELSE IF weight_zscore < -30 \/ height_zscore < -30 THEN "Severe"
            ELSE "Normal"
        developmental_risk ==
            IF malnutrition_status \in {"Severe"} THEN "High Risk"
            ELSE IF malnutrition_status \in {"Stunting", "Underweight", "Overweight"}
                 THEN "At Risk"
            ELSE "No Risk"
    IN  Prediction(malnutrition_status, developmental_risk)

\* The try block of predict_malnutrition_risk: the codes read out of the
\* model's return value; raised = TRUE when the block raises (the model's own
\* exception, an IndexError on an empty return value, or the TypeError of
\* int() on a tuple shorter than 2, which is neither a list nor an ndarray
\* and so is taken whole as pred_value).
PredictionCodes(behaviour) ==
    LET vals == behaviour.vals
        n == Len(vals)
    IN  IF behaviour.kind = "raise" THEN [raised |-> TRUE, m |-> 0, r |-> 0]
        ELSE IF behaviour.kind \in {"list", "tuple"} /\ n >= 2
             THEN [raised |-> FALSE, m |-> vals[1], r |-> vals[2]]
        ELSE IF behaviour.kind = "array2d"
             THEN IF n = 0 THEN [raised |-> TRUE, m |-> 0, r |-> 0]
                  ELSE [raised |-> FALSE, m |-> vals[1],
                        r |-> IF n > 1 THEN vals[2] ELSE 0]
        ELSE IF behaviour.kind = "tuple" THEN [raised |-> TRUE, m |-> 0, r |-> 0]
        ELSE IF n = 0 THEN [raised |-> TRUE, m |-> 0, r |-> 0]
        ELSE [raised |-> FALSE, m |-> vals[1],
              r |-> _infer_risk_from_malnutrition(vals[1])]

\* a variant whose label lookups have no valid default
PredictLabelsUnchecked(features, model, behaviour) ==
    LET codes == PredictionCodes(behaviour)
    IN  IF model = "absent" \/ codes.raised THEN _get_fallback_prediction(features)
        ELSE Prediction(DictGet(malnutrition_labels, codes.m, "Code"),
                        DictGet(risk_labels, codes.r, "Code"))
\* a variant that reports the model's exception instead of falling back
PredictPropagatesError(features, model, behaviour) ==
    LET codes == PredictionCodes(behaviour)
    IN  IF model = "absent" THEN _get_fallback_prediction(features)
        ELSE IF codes.raised THEN Prediction("Error", "Error")
        ELSE Prediction(DictGet(malnutrition_labels, codes.m, "Normal"),
                        DictGet(risk_labels, codes.r, "No Risk"))
\* predict_malnutrition_risk
predict_malnutrition_risk(features, model, behaviour) ==
    LET codes == PredictionCodes(behaviour)
    IN  IF model = "absent" \/ codes.raised THEN _get_fallback_prediction(features)
        ELSE Prediction(DictGet(malnutrition_labels, codes.m, "Normal"),
                        DictGet(risk_labels, codes.r, "No Risk"))

\* ------------------------------------------------------ recommendations
\* A text is kept by where it comes from; sentences is the number of
\* non-empty '.'-separated parts it has.
Text(source, language, status, risk, sentences) ==
    [source |-> source, language |-> language, status |-> status, risk |-> risk,
     sentences |-> sentences]

\* the keys of the static recommendation table: of the English dict
RecommendationKeys ==
    { <<"Normal", "No Risk">>, <<"Stunting", "At Risk">>, <<"Stunting", "High Risk">>,
      <<"Underweight", "At Risk">>, <<"Underweight", "High Risk">>,
      <<"Overweight", "At Risk">>, <<"Overweight", "High Risk">>,
      <<"Severe", "High Risk">> }
\* and of the Swahili dict
SwahiliRecommendationKeys ==
    { <<"Normal", "No Risk">>, <<"Stunting", "At Risk">>, <<"Stunting", "High Risk">>,
      <<"Underweight", "At Risk">>, <<"Underweight", "High Risk">>,
      <<"Overweight", "At Risk">>, <<"Overweight", "High Risk">>,
      <<"Severe", "High Risk">> }
TableText(language, status, risk) ==
    Text("table", language, status, risk,
         IF <<status, risk>> = <<"Normal", "No Risk">> THEN 3 ELSE 4)
GenericText(language) == Text("generic", language, "", "", 2)

\* what the loaded recommendation model may return: any text
ModelTexts ==
    { Text("model", "english", "", "", 1), Text("model", "english", "", "", 0),
      TableText("english", "Normal", "No Risk") }
\* which of the probed entry points the model object has ("none": it has
\* neither and is not callable, so the call raises)
RecommendationInterfaces == {"predict", "get_recommendation", "__call__", "none"}
RecommendationBehaviours ==
    [iface : RecommendationInterfaces, kind : {"raise", "text"}, text : ModelTexts]

NoRecommendationBehaviour ==
    [iface |-> "none", kind |-> "raise", text |-> Text("model", "english", "", "", 0)]
RecommendationBehavioursOf(model) ==
    IF model = "absent" THEN {NoRecommendationBehaviour} ELSE RecommendationBehaviours

\* the statuses and risks a caller may pass, valid or not
StatusArgs == MalnutritionStatuses \cup {"Unknown"}
RiskArgs == DevelopmentalRisks \cup {"Unknown"}
LanguageArgs == Languages \cup {"french"}

\* a variant that answers from the English dict in every language
FallbackRecommendationInEnglish(malnutrition_status, developmental_risk, language) ==
    IF <<malnutrition_status, developmental_risk>> \in RecommendationKeys
    THEN TableText("english", malnutrition_status, developmental_risk)
    ELSE GenericText("english")
\* _get_fallback_recommendation
_get_fallback_recommendation(malnutrition_status, developmental_risk, language) ==
    LET table == IF language = "swahili" THEN "swahili" ELSE "english"
        recommendations == IF language = "swahili" THEN SwahiliRecommendationKeys
                           ELSE RecommendationKeys
        key == <<malnutrition_status, developmental_risk>>
    IN  IF key \in recommendations
        THEN TableText(table, malnutrition_status, developmental_risk)
        ELSE GenericText(table)

\* _translate_recommendation_to_swahili
_translate_recommendation_to_swahili(english_rec, malnutrition_status, developmental_risk) ==
    _get_fallback_recommendation(malnutrition_status, developmental_risk, "swahili")

\* _prepare_recommendation_input: the reverse lookups raise KeyError on a
\* label that is in neither table
_prepare_recommendation_input(malnutrition_status, developmental_risk) ==
    IF /\ \E k \in DOMAIN malnutrition_labels : malnutrition_labels[k] = malnutrition_status
       /\ \E k \in DOMAIN risk_labels : risk_labels[k] = developmental_risk
    THEN [raised |-> FALSE,
          input |-> << CHOOSE k \in DOMAIN malnutrition_labels :
                          malnutrition_labels[k] = malnutrition_status,
                       CHOOSE k \in DOMAIN risk_labels :
                          risk_labels[k] = developmental_risk >>]
    ELSE [raised |-> TRUE, input |-> <<>>]

\* a variant that returns the model's text in every language and the English
\* generic message on an exception
RecommendationKeepsModelText(malnutrition_status, developmental_risk, language, model, behaviour) ==
    IF model = "absent"
    THEN _get_fallback_recommendation(malnutrition_status, developmental_risk, language)
    ELSE IF \/ _prepare_recommendation_input(malnutrition_status, developmental_risk).raised
            \/ behaviour.iface = "none" \/ behaviour.kind = "raise"
         THEN GenericText("english")
    ELSE behaviour.text
\* get_recommendation
get_recommendation(malnutrition_status, developmental_risk, language, model, behaviour) ==
    IF model = "absent"
    THEN _get_fallback_recommendation(malnutrition_status, developmental_risk, language)
    ELSE IF \/ _prepare_recommendation_input(malnutrition_status, developmental_risk).raised
            \/ behaviour.iface = "none" \/ behaviour.kind = "raise"
         THEN _get_fallback_recommendation(malnutrition_status, developmental_risk, language)
    ELSE IF language = "swahili"
         THEN _translate_recommendation_to_swahili(behaviour.text, malnutrition_status,
                                                   developmental_risk)
    ELSE behaviour.text

\* ---------------------------------------------------------------- chatbot
\* A question is kept as the set of keyword groups of which question.lower()
\* contains at least one keyword.
KeywordGroups == {"nutrition", "growth", "play", "health", "weight", "sleep"}
Questions == {q \in SUBSET KeywordGroups : Cardinality(q) <= 2}
ChatbotInterfaces == {"predict", "get_answer", "__call__", "none"}
ChatbotBehaviours ==
    [iface : ChatbotInterfaces, kind : {"raise", "text"}, text : ModelTexts]

NoChatbotBehaviour ==
    [iface |-> "none", kind |-> "raise", text |-> Text("model", "english", "", "", 0)]

ChatbotBehavioursOf(model) ==
    IF model = "absent" THEN {NoChatbotBehaviour} ELSE ChatbotBehaviours

\* _get_fallback_chatbot_answer: the first matching topic, in the order of
\* the if/elif chain
_get_fallback_chatbot_answer(question, language) ==
    LET topic ==
            IF "nutrition" \in question THEN "nutrition"
            ELSE IF "growth" \in question THEN "growth"
            ELSE IF "play" \in question THEN "play"
            ELSE IF "health" \in question THEN "health"
            ELSE IF "weight" \in question THEN "weight"
            ELSE IF "sleep" \in question THEN "sleep"
            ELSE "general"
    IN  Text("chatbot", IF language = "swahili" THEN "swahili" ELSE "english",
             topic, "", 3)

\* get_chatbot_answer: a model with none of predict, get_answer, __call__ ends
\* in an AttributeError inside the try block
get_chatbot_answer(question, language, model, behaviour) ==
    IF model = "absent" THEN _get_fallback_chatbot_answer(question, language)
    ELSE IF behaviour.iface = "none" \/ behaviour.kind = "raise"
         THEN _get_fallback_chatbot_answer(question, language)
    ELSE behaviour.text

\* ================================================================ state
VARIABLES
    users,                 \* users table: id -> [language]
    children,              \* children table: a set of rows
    growth_records,        \* growth_records table: a set of rows
    requests,              \* the /api/v1/children requests in flight, per slot
    prediction_model,      \* ml_models.prediction_model
    recommendation_model,  \* ml_models.recommendation_model
    chatbot_model,         \* ml_models.chatbot_model
    ml_call,               \* the last direct call of an adapter, with its result
    accounts,              \* users table: the rows, with the columns of authentication
    revoked_tokens,        \* revoked_tokens table: a set of rows
    tokens,                \* every JWT issued so far (the server keeps none of them)
    clock,                 \* datetime.utcnow(), in time units
    auth_requests          \* the /api/v1/auth and /users/me requests in flight, per slot

vars ==
    << users, children, growth_records, requests, prediction_model,
       recommendation_model, chatbot_model, ml_call, accounts, revoked_tokens,
       tokens, clock, auth_requests >>
auth_vars == << accounts, revoked_tokens, tokens, clock, auth_requests >>
db_vars == << users, children, growth_records, requests >>
model_vars == << prediction_model, recommendation_model, chatbot_model >>

\* ------------------------------------------------------------ sequences
Max(S) == CHOOSE x \in S : \A y \in S : y <= x
Take(seq, n) == SubSeq(seq, 1, IF n < Len(seq) THEN n ELSE Len(seq))
\* the last n elements: seq[-n:]
LastN(seq, n) == SubSeq(seq, IF Len(seq) > n THEN Len(seq) - n + 1 ELSE 1, Len(seq))
\* [f(x) for x in seq if keep(x)] for a Boolean mask
RECURSIVE Filter(_, _)
Filter(seq, mask) ==
    IF seq = <<>> THEN <<>>
    ELSE IF mask[1] THEN <<seq[1]>> \o Filter(Tail(seq), Tail(mask))
    ELSE Filter(Tail(seq), Tail(mask))

\* the clock: the largest timestamp written so far
LastStamp ==
    Max({0} \cup {g.recorded_at : g \in growth_records}
            \cup {Val(g.prediction_results).timestamp
                    : g \in {x \in growth_records : ~IsNone(x.prediction_results)}})
\* datetime.utcnow() at the next write: the clock has moved on, or has not
Nows == {LastStamp, LastStamp + 1}

\* ------------------------------------------------------------------ CRUD
\* what a database call of the handler may do: succeed, or raise at the
\* named call (connection lost, statement error)
CreateFaults == {"none", "select", "commit", "refresh"}
SelectFaults == {"none", "select"}
UpdateFaults == {"none", "select", "commit"}

\* a variant that selects on child_id alone
GetChildIgnoringParent(child_id, parent_id) ==
    LET rows == {c \in children : c.child_id = child_id}
    IN  IF rows = {} THEN None ELSE Some(CHOOSE c \in rows : TRUE)
\* get_child_by_id: the child row with that id AND that parent, or None
get_child_by_id(child_id, parent_id) ==
    LET rows == {c \in children : c.child_id = child_id /\ c.parent_id = parent_id}
    IN  IF rows = {} THEN None ELSE Some(CHOOSE c \in rows : TRUE)

\* a variant that tests the fields for truth instead of `is not None`
ZScoresDroppingZeros(record_data) ==
    LET keys == {k \in ZScoreKeys \cup PercentileKeys :
                    ~IsNone(record_data[k]) /\ Val(record_data[k]) # 0}
    IN  IF keys = {} THEN None ELSE Some([k \in keys |-> Val(record_data[k])])
\* the dict create_growth_record builds from the Z-scores and percentiles
\* that are not None, and the column value: None for an empty dict
z_scores_percentiles_of(record_data) ==
    LET keys == {k \in ZScoreKeys \cup PercentileKeys : ~IsNone(record_data[k])}
        z_scores_percentiles == [k \in keys |-> Val(record_data[k])]
    IN  IF keys = {} THEN None ELSE Some(z_scores_percentiles)

\* the row db.add / commit inserts (record_id: a fresh primary key)
NewGrowthRecord(child_id, record_data, calculated_bmi, now) ==
    [record_id |-> Cardinality(growth_records) + 1,
     child_id |-> child_id,
     age_months |-> record_data.age_months,
     weight_kg |-> record_data.weight_kg,
     height_cm |-> record_data.height_cm,
     muac_cm |-> record_data.muac_cm,
     bmi |-> Some(calculated_bmi),
     diet_diversity_score |-> record_data.diet_diversity_score,
     recent_infection |-> record_data.recent_infection,
     z_scores_percentiles |-> z_scores_percentiles_of(record_data),
     prediction_results |-> None,
     recorded_at |-> now]

CrudResult(status, detail, record, rows) ==
    [status |-> status, detail |-> detail, record |-> record, rows |-> rows]

\* create_growth_record: status 200 with the refreshed row, or the
\* HTTPException raised; rows is the table afterwards
create_growth_record(child_id, record_data, parent_id, fault, now) ==
    LET child == get_child_by_id(child_id, parent_id)
        bmi == calculate_bmi(record_data.weight_kg, record_data.height_cm)
        row == NewGrowthRecord(child_id, record_data, bmi.value, now)
    IN  IF fault = "select"
        THEN CrudResult(500, "Failed to create growth record", None, growth_records)
        ELSE IF IsNone(child)
        THEN CrudResult(404, "Child not found", None, growth_records)
        ELSE IF ~bmi.ok \/ fault = "commit"
        THEN CrudResult(500, "Failed to create growth record", None, growth_records)
        ELSE IF fault = "refresh"
        THEN \* the row is committed; rollback() undoes nothing
             CrudResult(500, "Failed to create growth record", None,
                        growth_records \cup {row})
        ELSE CrudResult(200, "", Some(row), growth_records \cup {row})

\* the dict update_growth_record_predictions stores: the predictions with
\* the timestamp it adds
StoredPrediction(predictions, now) ==
    [malnutrition_status |-> predictions.malnutrition_status,
     developmental_risk |-> predictions.developmental_risk,
     timestamp |-> now]

\* a variant that attaches the prediction to the newest row of the table
UpdateNewestRecord(record_id, predictions, fault, now) ==
    IF fault = "select" \/ growth_records = {} \/ fault = "commit"
    THEN [ok |-> FALSE, rows |-> growth_records]
    ELSE LET record == CHOOSE g \in growth_records :
                          \A x \in growth_records : x.record_id <= g.record_id
             updated == [record EXCEPT
                           !.prediction_results =
                               Some(StoredPrediction(predictions, now))]
         IN  [ok |-> TRUE, rows |-> (growth_records \ {record}) \cup {updated}]

\* update_growth_record_predictions: looks the record up by record_id alone;
\* ok is the bool it returns, rows the table afterwards
update_growth_record_predictions(record_id, predictions, fault, now) ==
    LET found == {g \in growth_records : g.record_id = record_id}
    IN  IF fault = "select" \/ found = {} \/ fault = "commit"
        THEN [ok |-> FALSE, rows |-> growth_records]
        ELSE LET record == CHOOSE g \in found : TRUE
                 updated == [record EXCEPT
                               !.prediction_results =
                                   Some(StoredPrediction(predictions, now))]
             IN  [ok |-> TRUE, rows |-> (growth_records \ {record}) \cup {updated}]

\* ---------------------------------------------------------------- readers
\* ORDER BY recorded_at DESC: every arrangement of the rows with the
\* timestamps non-increasing (rows of equal timestamp come in any order)
RECURSIVE OrderedByRecordedAtDesc(_)
OrderedByRecordedAtDesc(rows) ==
    IF rows = {} THEN { <<>> }
    ELSE UNION { { <<g>> \o s : s \in OrderedByRecordedAtDesc(rows \ {g}) }
                   : g \in {x \in rows : \A y \in rows : x.recorded_at >= y.recorded_at} }

\* `if limit: query = query.limit(limit)`: None and 0 leave the query unlimited
ApplyLimit(seq, limit) ==
    IF IsNone(limit) \/ Val(limit) = 0 THEN seq ELSE Take(seq, Val(limit))

ReadResult(status, detail, records) ==
    [status |-> status, detail |-> detail, records |-> records]

\* get_child_growth_history: the outcomes the call may have, one per order
\* the database may return the rows in
get_child_growth_history(child_id, parent_id, limit) ==
    IF IsNone(get_child_by_id(child_id, parent_id))
    THEN { ReadResult(404, "Child not found", <<>>) }
    ELSE { ReadResult(200, "", ApplyLimit(s, limit))
             : s \in OrderedByRecordedAtDesc(
                        {g \in growth_records : g.child_id = child_id}) }

\* get_latest_growth_record: records[0] if records else None
get_latest_growth_record(child_id, parent_id) ==
    { [status |-> h.status, detail |-> h.detail,
       record |-> IF h.records = <<>> THEN None ELSE Some(h.records[1])]
        : h \in get_child_growth_history(child_id, parent_id, Some(1)) }

\* sorted(records, key=lambda x: x.age_months): stable
InsertByAge(sorted, r) ==
    LET k == Cardinality({i \in 1 .. Len(sorted) : sorted[i].age_months <= r.age_months})
    IN  SubSeq(sorted, 1, k) \o <<r>> \o SubSeq(sorted, k + 1, Len(sorted))
RECURSIVE SortByAge(_)
SortByAge(records) ==
    IF records = <<>> THEN <<>>
    ELSE InsertByAge(SortByAge(SubSeq(records, 1, Len(records) - 1)),
                     records[Len(records)])

Alert(text, status) == [text |-> text, status |-> status]
SevereStatuses == {"Severe", "Stunting", "Underweight"}

\* a variant that analyses a single record as well
TrendsOfAnyHistory(fetched) ==
    IF Len(fetched) < 1
    THEN [trends |-> <<>>, alerts |-> <<>>, total_records |-> None]
    ELSE
    LET records == SortByAge(fetched)
        n == Len(records)
        concerning ==
            {i \in 1 .. n :
                /\ ~IsNone(records[i].prediction_results)
                /\ Val(records[i].prediction_results).malnutrition_status
                      \in SevereStatuses}
    IN  [trends |-> [k \in {"weight", "height"} |-> "stable"],
         alerts |->
             IF concerning # {}
             THEN << Alert("Concerning nutritional status",
                           Val(records[CHOOSE i \in concerning : TRUE]
                                  .prediction_results).malnutrition_status) >>
             ELSE <<>>,
         total_records |-> Some(n)]

\* the body of analyze_growth_trends on the rows the history query returned
TrendsOf(fetched) ==
    IF Len(fetched) < 2
    THEN [trends |-> <<>>, alerts |-> <<>>, total_records |-> None]
    ELSE
    LET records == SortByAge(fetched)
        n == Len(records)
        weight ==
            IF records[n].weight_kg > records[1].weight_kg THEN "increasing"
            ELSE IF records[n].weight_kg < records[1].weight_kg THEN "decreasing"
            ELSE "stable"
        height ==
            IF FloatGt(records[n].height_cm, records[1].height_cm) THEN "increasing"
            ELSE IF FloatLt(records[n].height_cm, records[1].height_cm) THEN "decreasing"
            ELSE "stable"
        last3 == LastN(records, 3)
        recent_predictions ==
            Filter([i \in 1 .. Len(last3) |-> last3[i].prediction_results],
                   [i \in 1 .. Len(last3) |-> ~IsNone(last3[i].prediction_results)])
        concerning ==
            {i \in 1 .. Len(recent_predictions) :
                Val(recent_predictions[i]).malnutrition_status \in SevereStatuses}
        first == CHOOSE i \in concerning : \A j \in concerning : i <= j
    IN  [trends |-> [k \in {"weight", "height"} |-> IF k = "weight" THEN weight ELSE height],
         alerts |->
             (IF weight = "decreasing"
              THEN << Alert("Weight showing decreasing trend", "") >> ELSE <<>>)
             \o (IF height = "decreasing"
                 THEN << Alert("Height showing concerning pattern", "") >> ELSE <<>>)
             \o (IF concerning # {}
                 THEN << Alert("Concerning nutritional status",
                               Val(recent_predictions[first]).malnutrition_status) >>
                 ELSE <<>>),
         total_records |-> Some(n)]

\* a variant that analyses the whole history
AnalyzeWholeHistory(child_id, parent_id) ==
    { IF h.status # 200
      THEN [status |-> h.status, detail |-> h.detail, analysis |-> TrendsOf(<<>>)]
      ELSE [status |-> 200, detail |-> "", analysis |-> TrendsOf(h.records)]
        : h \in get_child_growth_history(child_id, parent_id, None) }

\* analyze_growth_trends: the outcomes the call may have
analyze_growth_trends(child_id, parent_id) ==
    { IF h.status # 200
      THEN [status |-> h.status, detail |-> h.detail, analysis |-> TrendsOf(<<>>)]
      ELSE [status |-> 200, detail |-> "", analysis |-> TrendsOf(h.records)]
        : h \in get_child_growth_history(child_id, parent_id, Some(5)) }

\* ============================================================= requests
Response(status_code, detail, body) ==
    [status_code |-> status_code, detail |-> detail, body |-> body]

\* One slot: the handler's locals between its awaits, and in the end the
\* response.  pc: idle -> created -> predicted -> done (POST records), or
\* idle -> done (the readers, and every early error).
IdleRequest ==
    [kind |-> "idle", pc |-> "idle", user |-> "U", language |-> "english",
     child_id |-> 0, payload |-> BasePayload, growth_record |-> None,
     prediction_features |-> None, prediction_result |-> None,
     recommendations_text |-> None, attached |-> FALSE, response |-> None,
     records_before |-> {}]

Started(kind, u, child_id, payload) ==
    [IdleRequest EXCEPT !.kind = kind, !.user = u, !.language = users[u].language,
                        !.child_id = child_id, !.payload = payload,
                        !.records_before = growth_records]
Done(req, response) == [req EXCEPT !.pc = "done", !.response = Some(response)]

\* the `error_msg = ... if current_user.language == "swahili" else ...` lines
Localized(language, swahili, english) == IF language = "swahili" THEN swahili ELSE english

\* prediction_features of create_child_growth_record
prediction_features_of(record_data, child, growth_record) ==
    [Age_Months |-> record_data.age_months,
     Sex |-> child.sex,
     Weight_kg |-> record_data.weight_kg,
     Height_cm |-> record_data.height_cm,
     HeadCircumference_cm |-> 450,
     MUAC_cm |-> PyOr(record_data.muac_cm, 140),
     BMI |-> Val(growth_record.bmi),
     Diet_Diversity_Score |-> record_data.diet_diversity_score,
     Recent_Infection |-> IF record_data.recent_infection THEN "Yes" ELSE "No",
     Weight_for_Age_ZScore |-> PyOr(record_data.weight_for_age_zscore, 0),
     Height_for_Age_ZScore |-> PyOr(record_data.height_for_age_zscore, 0),
     BMI_for_Age_ZScore |-> PyOr(record_data.bmi_for_age_zscore, 0),
     MUAC_for_Age_ZScore |-> PyOr(record_data.muac_for_age_zscore, 0),
     Weight_for_Age_Percentile |-> PyOr(record_data.weight_for_age_percentile, 50),
     Height_for_Age_Percentile |-> PyOr(record_data.height_for_age_percentile, 50),
     BMI_for_Age_Percentile |-> PyOr(record_data.bmi_for_age_percentile, 50),
     MUAC_for_Age_Percentile |-> PyOr(record_data.muac_for_age_percentile, 50)]

\* [rec.strip() for rec in recommendations_text.split('.') if rec.strip()]
SplitSentences(text) == [i \in 1 .. text.sentences |-> [text |-> text, part |-> i]]

\* ------------------------------------------------- POST /{child_id}/records
\* The body is validated against GrowthRecordCreate (422 before the handler
\* runs), then create_growth_record is awaited (line 111); its HTTPException
\* passes through `except HTTPException: raise`.
ValidatedCreate(child_id, record_data, parent_id, fault, now) ==
    IF ~ValidGrowthRecordCreate(record_data)
    THEN CrudResult(422, "validation error", None, growth_records)
    ELSE create_growth_record(child_id, record_data, parent_id, fault, now)

PostRecords_Create(r, u, child_id, record_data, fault, now) ==
    /\ requests[r].pc = "idle"
    /\ LET req == Started("records", u, child_id, record_data)
           res == ValidatedCreate(child_id, record_data, u, fault, now)
       IN  /\ growth_records' = res.rows
           /\ requests' = [requests EXCEPT ![r] =
                IF res.status = 200
                THEN [req EXCEPT !.pc = "created", !.growth_record = res.record]
                ELSE Done(req, Response(res.status, res.detail, None))]
    /\ UNCHANGED << users, children, model_vars, ml_call, auth_vars >>

\* get_child_by_id, the feature vector, the prediction and the recommendation
\* (lines 114 to 148)
PostRecords_Predict(r, fault, pb, rb) ==
    /\ requests[r].pc = "created"
    /\ LET req == requests[r]
           child == get_child_by_id(req.child_id, req.user)
           features == prediction_features_of(req.payload, Val(child),
                                              Val(req.growth_record))
           prediction == predict_malnutrition_risk(features, prediction_model, pb)
           text == get_recommendation(prediction.malnutrition_status,
                                      prediction.developmental_risk, req.language,
                                      recommendation_model, rb)
       IN  requests' = [requests EXCEPT ![r] =
             IF fault = "select" \/ IsNone(child)
             THEN Done(req, Response(500,
                         Localized(req.language, "Imeshindwa kutengeneza rekodi ya ukuaji",
                                   "Failed to create growth record"), None))
             ELSE [req EXCEPT !.pc = "predicted",
                              !.prediction_features = Some(features),
                              !.prediction_result = Some(prediction),
                              !.recommendations_text = Some(text)]]
    /\ UNCHANGED << users, children, growth_records, model_vars, ml_call, auth_vars >>

\* update_growth_record_predictions, whose result is not looked at, and the
\* response (lines 150 to 166)
PostRecords_Attach(r, fault, now) ==
    /\ requests[r].pc = "predicted"
    /\ LET req == requests[r]
           growth_record == Val(req.growth_record)
           prediction_result == Val(req.prediction_result)
           prediction_data == Prediction(prediction_result.malnutrition_status,
                                         prediction_result.developmental_risk)
           upd == update_growth_record_predictions(growth_record.record_id,
                                                   prediction_data, fault, now)
       IN  /\ growth_records' = upd.rows
           /\ requests' = [requests EXCEPT ![r] =
                Done([req EXCEPT !.attached = upd.ok],
                     Response(200, "",
                       Some([malnutrition_status |-> prediction_result.malnutrition_status,
                             developmental_risk |-> prediction_result.developmental_risk,
                             recommendations |-> SplitSentences(Val(req.recommendations_text)),
                             record_id |-> growth_record.record_id,
                             bmi_calculated |-> growth_record.bmi])))]
    /\ UNCHANGED << users, children, model_vars, ml_call, auth_vars >>

\* --------------------------------------------------- GET /{child_id}/history
ChildInfo(child) == [child_id |-> child.child_id, sex |-> child.sex]

\* a variant whose latest_prediction is the newest prediction there is
HistoryWithNewestPrediction(u, language, child_id, fault) ==
    LET child == get_child_by_id(child_id, u)
        predicted(records) == SelectSeq(records, LAMBDA g : ~IsNone(g.prediction_results))
    IN  IF fault = "select"
        THEN { Response(500, Localized(language, "Imeshindwa kupata historia ya mtoto",
                                       "Failed to fetch child history"), None) }
        ELSE IF IsNone(child)
        THEN { Response(404, Localized(language, "Mtoto hajapatikana", "Child not found"),
                        None) }
        ELSE { Response(200, "",
                      Some([child_info |-> ChildInfo(Val(child)),
                            growth_records |-> h.records,
                            total_records |-> Len(h.records),
                            latest_prediction |->
                                IF predicted(h.records) # <<>>
                                THEN predicted(h.records)[1].prediction_results
                                ELSE None]))
                 : h \in get_child_growth_history(child_id, u, None) }

\* the responses get_child_history may give
get_child_history(u, language, child_id, fault) ==
    LET child == get_child_by_id(child_id, u)
    IN  IF fault = "select"
        THEN { Response(500, Localized(language, "Imeshindwa kupata historia ya mtoto",
                                       "Failed to fetch child history"), None) }
        ELSE IF IsNone(child)
        THEN { Response(404, Localized(language, "Mtoto hajapatikana", "Child not found"),
                        None) }
        ELSE { IF h.status # 200 THEN Response(h.status, h.detail, None)
               ELSE Response(200, "",
                      Some([child_info |-> ChildInfo(Val(child)),
                            growth_records |-> h.records,
                            total_records |-> Len(h.records),
                            latest_prediction |->
                                IF h.records # <<>>
                                THEN h.records[1].prediction_results ELSE None]))
                 : h \in get_child_growth_history(child_id, u, None) }

GetChildHistory(r, u, child_id, fault) ==
    /\ requests[r].pc = "idle"
    /\ \E resp \in get_child_history(u, users[u].language, child_id, fault) :
          requests' = [requests EXCEPT ![r] =
                          Done(Started("history", u, child_id, BasePayload), resp)]
    /\ UNCHANGED << users, children, growth_records, model_vars, ml_call, auth_vars >>

\* ---------------------------------------------------- GET /{child_id}/trends
Measurement(record) ==
    [age_months |-> record.age_months, weight_kg |-> record.weight_kg,
     height_cm |-> record.height_cm, bmi |-> record.bmi,
     recorded_at |-> record.recorded_at, prediction |-> record.prediction_results]

\* the alert texts in the user's language
TranslateAlert(language, alert) ==
    IF language # "swahili" THEN alert
    ELSE IF alert.text = "Weight showing decreasing trend"
         THEN Alert("Uzito unashuka - hali ya wasiwasi", "")
    ELSE IF alert.text = "Height showing concerning pattern"
         THEN Alert("Urefu una mfumo wa wasiwasi", "")
    ELSE IF alert.text = "Concerning nutritional status"
         THEN Alert("Hali ya lishe ya wasiwasi", alert.status)
    ELSE alert

\* the responses get_child_growth_trends may give
get_child_growth_trends(u, language, child_id, fault) ==
    IF fault = "select"
    THEN { Response(500, Localized(language, "Imeshindwa kuchambua mienendo ya ukuaji",
                                   "Failed to analyze growth trends"), None) }
    ELSE UNION {
           IF a.status # 200 THEN { Response(a.status, a.detail, None) }
           ELSE { IF h.status # 200 THEN Response(h.status, h.detail, None)
                  ELSE LET sorted == SortByAge(h.records)
                       IN Response(200, "",
                            Some([child_id |-> child_id,
                                  measurements |->
                                      [i \in 1 .. Len(sorted) |-> Measurement(sorted[i])],
                                  trends |-> a.analysis.trends,
                                  alerts |->
                                      [i \in 1 .. Len(a.analysis.alerts) |->
                                          TranslateAlert(language, a.analysis.alerts[i])]]))
                    : h \in get_child_growth_history(child_id, u, Some(10)) }
             : a \in analyze_growth_trends(child_id, u) }

GetChildGrowthTrends(r, u, child_id, fault) ==
    /\ requests[r].pc = "idle"
    /\ \E resp \in get_child_growth_trends(u, users[u].language, child_id, fault) :
          requests' = [requests EXCEPT ![r] =
                          Done(Started("trends", u, child_id, BasePayload), resp)]
    /\ UNCHANGED << users, children, growth_records, model_vars, ml_call, auth_vars >>

\* ----------------------------------------------------------- POST /register
\* the registrations the model draws from
Registrations ==
    {[parent_id |-> "U", sex |-> "Male"], [parent_id |-> "V", sex |-> "Female"]}

\* create_child: one row, owned by the caller (child_id: a fresh primary key)
RegisterChild(u, sex) ==
    /\ Cardinality(children) < MaxChildren
    /\ children' = children \cup
          {[child_id |-> Cardinality(children) + 1, parent_id |-> u, sex |-> sex]}
    /\ UNCHANGED << users, growth_records, requests, model_vars, ml_call, auth_vars >>

\* the client has read the response; the slot serves the next request
Forget(r) ==
    /\ requests[r].pc = "done"
    /\ requests' = [requests EXCEPT ![r] = IdleRequest]
    /\ UNCHANGED << users, children, growth_records, model_vars, ml_call, auth_vars >>

\* ------------------------------------------------ direct adapter calls
NoCall ==
    [op |-> "none", features |-> BaseFeatures, status |-> "", risk |-> "",
     language |-> "", question |-> {}, behaviour |-> None, raises |-> FALSE,
     result |-> None]

\* a call ml_models.predict_malnutrition_risk(features)
CallPredict(features, pb) ==
    /\ ml_call.op = "none"
    /\ prediction_model = "absent" => pb = NoBehaviour
    /\ ml_call' = [NoCall EXCEPT !.op = "predict", !.features = features,
                     !.behaviour = Some(pb),
                     !.raises = (prediction_model = "loaded" /\ PredictionCodes(pb).raised),
                     !.result = Some(predict_malnutrition_risk(features, prediction_model, pb))]
    /\ UNCHANGED << db_vars, model_vars, auth_vars >>

\* a call ml_models.get_recommendation(status, risk, language)
CallRecommend(status, risk, language, rb) ==
    /\ ml_call.op = "none"
    /\ recommendation_model = "absent" => rb = NoRecommendationBehaviour
    /\ ml_call' = [NoCall EXCEPT !.op = "recommend", !.status = status, !.risk = risk,
                     !.language = language, !.behaviour = Some(rb),
                     !.raises = /\ recommendation_model = "loaded"
                                /\ \/ _prepare_recommendation_input(status, risk).raised
                                   \/ rb.iface = "none" \/ rb.kind = "raise",
                     !.result = Some(get_recommendation(status, risk, language,
                                                        recommendation_model, rb))]
    /\ UNCHANGED << db_vars, model_vars, auth_vars >>

\* a call ml_models.get_chatbot_answer(question, language)
CallChatbot(question, language, cb) ==
    /\ ml_call.op = "none"
    /\ chatbot_model = "absent" => cb = NoChatbotBehaviour
    /\ ml_call' = [NoCall EXCEPT !.op = "chatbot", !.question = question,
                     !.language = language, !.behaviour = Some(cb),
                     !.raises = /\ chatbot_model = "loaded"
                                /\ (cb.iface = "none" \/ cb.kind = "raise"),
                     !.result = Some(get_chatbot_answer(question, language,
                                                        chatbot_model, cb))]
    /\ UNCHANGED << db_vars, model_vars, auth_vars >>

\* the caller has the result
CallReturn ==
    /\ ml_call.op # "none"
    /\ ml_call' = NoCall
    /\ UNCHANGED << db_vars, model_vars, auth_vars >>

\* ========================================================= authentication
AuthSlots == {"a1", "a2"}
Emails == {"a@example.com", "b@example.com"}
Names == {"Amina", "Baraka"}

\* settings.access_token_expire_minutes and settings.refresh_token_expire_days
\* in units of the clock, the last instant of the clock, and the number of
\* JWTs issued in all
AccessTokenLife == 1
RefreshTokenLife == 2
MaxClock == 4
MaxIssued == 5

\* A JWT is kept as its claims; type is "" in a token without a type claim.
Jwt(jti, sub, exp, type) == [jti |-> jti, sub |-> sub, exp |-> exp, type |-> type]
\* a string that is no JWT signed with the secret key
Garbage == Jwt(0, 0, 0, "garbage")
\* uuid.uuid4(): an identifier no token has had
NewJti == Cardinality(tokens) + 1
create_access_token(subject, jti, now) == Jwt(jti, subject, now + AccessTokenLife, "")
create_refresh_token(subject, jti, now) == Jwt(jti, subject, now + RefreshTokenLife, "refresh")
\* verify_token at the instant now: jwt.decode raises ExpiredSignatureError
\* when exp <= now
verify_token(token, now) ==
    IF token = Garbage THEN "invalid"
    ELSE IF token.exp <= now THEN "expired"
    ELSE "ok"

\* is_token_revoked at the instant now
is_token_revoked(jti, now) ==
    \E row \in revoked_tokens : row.jti = jti /\ row.expires_at > now
get_user_by_id(user_id) ==
    IF \E u \in accounts : u.id = user_id
    THEN Some(CHOOSE u \in accounts : u.id = user_id) ELSE None

\* a variant that inserts without the unique index on users.email
CreateUserWithoutUniqueIndex(rows, email, name) ==
    [status_code |-> 201, detail |-> "",
     rows |-> rows \cup {[id |-> Cardinality(rows) + 1, email |-> email, name |-> name,
                          is_active |-> TRUE, password_hash |-> "registered"]}]
\* create_user at its commit: the INSERT meets the unique index on
\* users.email (IntegrityError -> rollback, 400), or adds the row
create_user(rows, email, name) ==
    IF \E u \in rows : u.email = email
    THEN [status_code |-> 400, detail |-> "Email already registered", rows |-> rows]
    ELSE [status_code |-> 201, detail |-> "",
          rows |-> rows \cup {[id |-> Cardinality(rows) + 1, email |-> email,
                               name |-> name, is_active |-> TRUE,
                               password_hash |-> "registered"]}]

\* One slot: pc is idle -> (adding | verified) -> done; started_at is the
\* instant the request arrived, and the *_before members are the tables as
\* it found them.
IdleAuthRequest ==
    [op |-> "idle", pc |-> "idle", token |-> Garbage, email |-> "", name |-> "",
     response |-> None, started_at |-> 0, revoked_before |-> FALSE,
     accounts_before |-> {}, tokens_before |-> {}]
AuthStarted(op, token) ==
    [IdleAuthRequest EXCEPT !.op = op, !.token = token, !.started_at = clock,
        !.revoked_before = (\E row \in revoked_tokens : row.jti = token.jti),
        !.accounts_before = accounts, !.tokens_before = tokens]
AuthDone(req, status_code, detail, body) ==
    [req EXCEPT !.pc = "done", !.response = Some(Response(status_code, detail, body))]

\* POST /register up to the commit: the body is validated and the password
\* hashed
RegisterStart(a, email, name) ==
    /\ auth_requests[a].pc = "idle"
    /\ auth_requests' = [auth_requests EXCEPT ![a] =
          [AuthStarted("register", Garbage) EXCEPT !.pc = "adding", !.email = email,
                                                   !.name = name]]
    /\ UNCHANGED << db_vars, model_vars, ml_call, accounts, revoked_tokens, tokens, clock >>
\* POST /register from the commit on
RegisterCommit(a) ==
    LET req == auth_requests[a]
        res == create_user(accounts, req.email, req.name)
    IN  /\ req.op = "register" /\ req.pc = "adding"
        /\ accounts' = res.rows
        /\ auth_requests' = [auth_requests EXCEPT ![a] =
              AuthDone(req, res.status_code, res.detail, None)]
        /\ UNCHANGED << db_vars, model_vars, ml_call, revoked_tokens, tokens, clock >>

\* POST /login: authenticate_user, then the two tokens
Login(a, email, password_ok) ==
    LET req == [AuthStarted("login", Garbage) EXCEPT !.email = email]
        found == {u \in accounts : u.email = email}
        user == CHOOSE u \in found : TRUE
        access_token == create_access_token(user.id, NewJti, clock)
        refresh_token == create_refresh_token(user.id, NewJti + 1, clock)
    IN  /\ auth_requests[a].pc = "idle"
        /\ IF found = {} \/ ~user.is_active \/ ~password_ok
           THEN /\ auth_requests' = [auth_requests EXCEPT ![a] =
                      AuthDone(req, 401, "Incorrect email or password", None)]
                /\ UNCHANGED tokens
           ELSE /\ Cardinality(tokens) + 2 <= MaxIssued
                /\ tokens' = tokens \cup {access_token, refresh_token}
                /\ auth_requests' = [auth_requests EXCEPT ![a] =
                      AuthDone(req, 200, "",
                               Some([access_token |-> access_token,
                                     refresh_token |-> refresh_token]))]
        /\ UNCHANGED << db_vars, model_vars, ml_call, accounts, revoked_tokens, clock >>

\* a variant that revokes every token issued to the user
LogoutEverywhere(a, token) ==
    LET req == AuthStarted("logout", token)
    IN  /\ auth_requests[a].pc = "idle"
        /\ verify_token(token, clock) # "expired"
        /\ revoked_tokens' = revoked_tokens \cup
              {[jti |-> t.jti, token_type |-> "access", user_id |-> t.sub,
                expires_at |-> t.exp] : t \in {x \in tokens : x.sub = token.sub}}
        /\ auth_requests' = [auth_requests EXCEPT ![a] =
              AuthDone(req, 200, "Successfully logged out", None)]
        /\ UNCHANGED << db_vars, model_vars, ml_call, accounts, tokens, clock >>

\* POST /logout: get_current_user_token, then revoke_token (jti is the
\* primary key of revoked_tokens: a second row of the same jti is an
\* IntegrityError nothing catches)
Logout(a, token) ==
    LET req == AuthStarted("logout", token)
    IN  /\ auth_requests[a].pc = "idle"
        /\ IF verify_token(token, clock) = "expired"
           THEN /\ auth_requests' = [auth_requests EXCEPT ![a] =
                      AuthDone(req, 401, "Token has expired", None)]
                /\ UNCHANGED revoked_tokens
           ELSE IF \E row \in revoked_tokens : row.jti = token.jti
           THEN /\ auth_requests' = [auth_requests EXCEPT ![a] =
                      AuthDone(req, 500, "Internal Server Error", None)]
                /\ UNCHANGED revoked_tokens
           ELSE /\ revoked_tokens' = revoked_tokens \cup
                      {[jti |-> token.jti, token_type |-> "access",
                        user_id |-> token.sub, expires_at |-> token.exp]}
                /\ auth_requests' = [auth_requests EXCEPT ![a] =
                      AuthDone(req, 200, "Successfully logged out", None)]
        /\ UNCHANGED << db_vars, model_vars, ml_call, accounts, tokens, clock >>

\* a request to an endpoint that depends on get_current_user, up to the
\* first await: get_current_user_token has decoded the token
ProtectedVerify(a, token) ==
    LET req == AuthStarted("me", token)
    IN  /\ auth_requests[a].pc = "idle"
        /\ auth_requests' = [auth_requests EXCEPT ![a] =
              IF verify_token(token, clock) = "expired"
              THEN AuthDone(req, 401, "Token has expired", None)
              ELSE [req EXCEPT !.pc = "verified"]]
        /\ UNCHANGED << db_vars, model_vars, ml_call, accounts, revoked_tokens, tokens,
                        clock >>
\* the rest of get_current_user: the revocation query, then the user
ProtectedCheck(a) ==
    LET req == auth_requests[a]
        user == get_user_by_id(req.token.sub)
    IN  /\ req.op = "me" /\ req.pc = "verified"
        /\ auth_requests' = [auth_requests EXCEPT ![a] =
              IF is_token_revoked(req.token.jti, clock)
              THEN AuthDone(req, 401, "Token has been revoked", None)
              ELSE IF IsNone(user) THEN AuthDone(req, 401, "User not found", None)
              ELSE IF ~Val(user).is_active
              THEN AuthDone(req, 401, "User account is inactive", None)
              ELSE AuthDone(req, 200, "", Some(Val(user)))]
        /\ UNCHANGED << db_vars, model_vars, ml_call, accounts, revoked_tokens, tokens,
                        clock >>

\* POST /refresh up to the first await: verify_token and the type test;
\* `except Exception` turns every failure into 401 'Could not refresh token'
RefreshVerify(a, token) ==
    LET req == AuthStarted("refresh", token)
    IN  /\ auth_requests[a].pc = "idle"
        /\ auth_requests' = [auth_requests EXCEPT ![a] =
              IF verify_token(token, clock) # "ok" \/ token.type # "refresh"
              THEN AuthDone(req, 401, "Could not refresh token", None)
              ELSE [req EXCEPT !.pc = "verified"]]
        /\ UNCHANGED << db_vars, model_vars, ml_call, accounts, revoked_tokens, tokens,
                        clock >>
\* the rest of POST /refresh: the revocation query, the user, the new token
RefreshIssue(a) ==
    LET req == auth_requests[a]
        user == get_user_by_id(req.token.sub)
        access_token == create_access_token(req.token.sub, NewJti, clock)
    IN  /\ req.op = "refresh" /\ req.pc = "verified"
        /\ IF \/ is_token_revoked(req.token.jti, clock)
              \/ IsNone(user) \/ ~Val(user).is_active
           THEN /\ auth_requests' = [auth_requests EXCEPT ![a] =
                      AuthDone(req, 401, "Could not refresh token", None)]
                /\ UNCHANGED tokens
           ELSE /\ Cardinality(tokens) < MaxIssued
                /\ tokens' = tokens \cup {access_token}
                /\ auth_requests' = [auth_requests EXCEPT ![a] =
                      AuthDone(req, 200, "",
                               Some([access_token |-> access_token,
                                     refresh_token |-> req.token]))]
        /\ UNCHANGED << db_vars, model_vars, ml_call, accounts, revoked_tokens, clock >>

\* time passes
Tick ==
    /\ clock < MaxClock
    /\ clock' = clock + 1
    /\ UNCHANGED << db_vars, model_vars, ml_call, accounts, revoked_tokens, tokens,
                    auth_requests >>

AuthForget(a) ==
    /\ auth_requests[a].pc = "done"
    /\ auth_requests' = [auth_requests EXCEPT ![a] = IdleAuthRequest]
    /\ UNCHANGED << db_vars, model_vars, ml_call, accounts, revoked_tokens, tokens,
                    clock >>

\* ---------------------------------------------------- password reset
\* timedelta(hours=1) in units of the clock
ResetTokenLife == 1
\* A sub that is an email and not a UUID is kept as a negative number.
EmailSubject == ("a@example.com" :> -1 @@ "b@example.com" :> -2)
EmailOf(sub) == CHOOSE email \in DOMAIN EmailSubject : EmailSubject[email] = sub
\* create_password_reset_token: sub is the email, and there is no jti
create_password_reset_token(email, now) ==
    Jwt(0, EmailSubject[email], now + ResetTokenLife, "password_reset")
get_user_by_email(email) ==
    IF \E u \in accounts : u.email = email
    THEN Some(CHOOSE u \in accounts : u.email = email) ELSE None
\* validate_password: len(password) < 4 is refused
NewPasswords == {"abc", "secret"}
validate_password(password) == Len(password) >= 4

\* verify_password_reset_token at the instant now: the outcomes it may have.
\* An expired token is a 400. For a token of another type the HTTPException
\* 400 is raised inside the try, and for an undecodable one a decode error:
\* both reach `except jwt.JWTError`, a name the jwt module may not have, in
\* which case the AttributeError leaves the handler as a 500.
verify_password_reset_token(token, now) ==
    IF token = Garbage
    THEN { [ok |-> FALSE, status_code |-> 400, detail |-> "Invalid password reset token"],
           [ok |-> FALSE, status_code |-> 500, detail |-> "Internal Server Error"] }
    ELSE IF token.exp <= now
    THEN { [ok |-> FALSE, status_code |-> 400,
            detail |-> "Password reset token has expired"] }
    ELSE IF token.type # "password_reset"
    THEN { [ok |-> FALSE, status_code |-> 400, detail |-> "Invalid token type"],
           [ok |-> FALSE, status_code |-> 500, detail |-> "Internal Server Error"] }
    ELSE { [ok |-> TRUE, status_code |-> 200, detail |-> EmailOf(token.sub)] }

\* POST /request-password-reset: a token is made for an active user only;
\* the answer is the same either way
RequestPasswordReset(a, email) ==
    LET req == [AuthStarted("request_password_reset", Garbage) EXCEPT !.email = email]
        user == get_user_by_email(email)
        reset_token == create_password_reset_token(email, clock)
    IN  /\ auth_requests[a].pc = "idle"
        /\ IF ~IsNone(user) /\ Val(user).is_active
           THEN /\ Cardinality(tokens \cup {reset_token}) <= MaxIssued
                /\ tokens' = tokens \cup {reset_token}
           ELSE UNCHANGED tokens
        /\ auth_requests' = [auth_requests EXCEPT ![a] =
              AuthDone(req, 200,
                 "If your email is registered, you will receive a password reset link.",
                 None)]
        /\ UNCHANGED << db_vars, model_vars, ml_call, accounts, revoked_tokens, clock >>

\* POST /reset-password: validate_password, verify_password_reset_token,
\* get_user_by_email, update_user_password
ResetPassword(a, token, new_password) ==
    LET req == AuthStarted("reset_password", token)
    IN  /\ auth_requests[a].pc = "idle"
        /\ \E v \in verify_password_reset_token(token, clock) :
              LET user == get_user_by_email(v.detail)
              IN  IF ~validate_password(new_password)
                  THEN /\ auth_requests' = [auth_requests EXCEPT ![a] =
                             AuthDone(req, 400,
                                "Password must be at least 4 characters long", None)]
                       /\ UNCHANGED accounts
                  ELSE IF ~v.ok
                  THEN /\ auth_requests' = [auth_requests EXCEPT ![a] =
                             AuthDone(req, v.status_code, v.detail, None)]
                       /\ UNCHANGED accounts
                  ELSE IF IsNone(user) \/ ~Val(user).is_active
                  THEN /\ auth_requests' = [auth_requests EXCEPT ![a] =
                             AuthDone(req, 400, "Invalid or expired reset token", None)]
                       /\ UNCHANGED accounts
                  ELSE /\ accounts' = (accounts \ {Val(user)}) \cup
                             {[Val(user) EXCEPT !.password_hash = new_password]}
                       /\ auth_requests' = [auth_requests EXCEPT ![a] =
                             AuthDone(req, 200, "Password has been reset successfully",
                                      None)]
        /\ UNCHANGED << db_vars, model_vars, ml_call, revoked_tokens, tokens, clock >>

\* ------------------------------------- get_current_user and its endpoints
\* a variant that does not look at is_active
GetCurrentUserOfAnyAccount(token, now) ==
    LET user == get_user_by_id(token.sub)
    IN  IF token.sub \in {EmailSubject[e] : e \in DOMAIN EmailSubject}
        THEN [status_code |-> 500, detail |-> "Internal Server Error", user |-> None]
        ELSE IF is_token_revoked(token.jti, now)
        THEN [status_code |-> 401, detail |-> "Token has been revoked", user |-> None]
        ELSE IF IsNone(user)
        THEN [status_code |-> 401, detail |-> "User not found", user |-> None]
        ELSE [status_code |-> 200, detail |-> "", user |-> user]
\* get_current_user after get_current_user_token has decoded the token:
\* UUID(sub) raises ValueError on a sub that is an email (nothing catches
\* it); then the revocation query, the user and its is_active
get_current_user(token, now) ==
    LET user == get_user_by_id(token.sub)
    IN  IF token.sub \in {EmailSubject[e] : e \in DOMAIN EmailSubject}
        THEN [status_code |-> 500, detail |-> "Internal Server Error", user |-> None]
        ELSE IF is_token_revoked(token.jti, now)
        THEN [status_code |-> 401, detail |-> "Token has been revoked", user |-> None]
        ELSE IF IsNone(user)
        THEN [status_code |-> 401, detail |-> "User not found", user |-> None]
        ELSE IF ~Val(user).is_active
        THEN [status_code |-> 401, detail |-> "User account is inactive", user |-> None]
        ELSE [status_code |-> 200, detail |-> "", user |-> user]

\* the children one parent may register
MaxRegistered == 2
\* POST /children/register up to the first await: get_current_user_token
RegisterChildVerify(a, token) ==
    LET req == AuthStarted("register_child", token)
    IN  /\ auth_requests[a].pc = "idle"
        /\ auth_requests' = [auth_requests EXCEPT ![a] =
              IF verify_token(token, clock) = "expired"
              THEN AuthDone(req, 401, "Token has expired", None)
              ELSE [req EXCEPT !.pc = "verified"]]
        /\ UNCHANGED << db_vars, model_vars, ml_call, accounts, revoked_tokens, tokens,
                        clock >>
\* the rest of get_current_user and, when it returns a user, register_child:
\* create_child adds a row owned by current_user.id
RegisterChildAs(a, sex) ==
    LET req == auth_requests[a]
        current == get_current_user(req.token, clock)
        child == [child_id |-> Cardinality(children) + 1,
                  parent_id |-> Val(current.user).id, sex |-> sex]
    IN  /\ req.op = "register_child" /\ req.pc = "verified"
        /\ IF current.status_code # 200
           THEN /\ auth_requests' = [auth_requests EXCEPT ![a] =
                      AuthDone(req, current.status_code, current.detail, None)]
                /\ UNCHANGED children
           ELSE /\ Cardinality(children) < MaxRegistered
                /\ children' = children \cup {child}
                /\ auth_requests' = [auth_requests EXCEPT ![a] =
                      AuthDone(req, 201, "", Some(child))]
        /\ UNCHANGED << users, growth_records, requests, model_vars, ml_call, accounts,
                        revoked_tokens, tokens, clock >>

\* no account, no token, no request to the auth router
AuthAtRest ==
    /\ accounts = {}
    /\ revoked_tokens = {}
    /\ tokens = {}
    /\ clock = 0
    /\ auth_requests = [a \in AuthSlots |-> IdleAuthRequest]

\* ================================================================= specs
\* Two registered users, U reading English and V Swahili, and empty child
\* and growth-record tables.
InitDb ==
    /\ users = ("U" :> [language |-> "english"] @@ "V" :> [language |-> "swahili"])
    /\ children = {}
    /\ growth_records = {}
    /\ requests = [r \in ReqIds |-> IdleRequest]
    /\ ml_call = NoCall
    /\ AuthAtRest

\* After startup with no model file on disk: load_models leaves every slot None.
Init ==
    /\ InitDb
    /\ prediction_model = "absent"
    /\ recommendation_model = "absent"
    /\ chatbot_model = "absent"

\* After startup, each slot loaded or not as load_models found its file.
AdapterInit ==
    /\ InitDb
    /\ prediction_model \in ModelSlots
    /\ recommendation_model \in ModelSlots
    /\ chatbot_model \in ModelSlots

Next ==
    \/ \E c \in Registrations : RegisterChild(c.parent_id, c.sex)
    \/ \E r \in ReqIds :
          /\ requests[r].pc = "idle"
          /\ \E u \in UserIds, c \in ChildIds, p \in Payloads, fault \in CreateFaults :
                \E now \in (IF fault \in {"none", "refresh"} THEN Nows ELSE {LastStamp}) :
                   /\ Cardinality(ValidatedCreate(c, p, u, fault, now).rows) <= MaxRecords
                   /\ PostRecords_Create(r, u, c, p, fault, now)
    \/ \E r \in ReqIds :
          /\ requests[r].pc = "created"
          /\ \E fault \in SelectFaults, pb \in BehavioursOf(prediction_model),
                rb \in RecommendationBehavioursOf(recommendation_model) :
                PostRecords_Predict(r, fault, pb, rb)
    \/ \E r \in ReqIds :
          /\ requests[r].pc = "predicted"
          /\ \E fault \in UpdateFaults :
                \E now \in (IF fault = "none" THEN Nows ELSE {LastStamp}) :
                   PostRecords_Attach(r, fault, now)
    \/ \E r \in ReqIds :
          /\ requests[r].pc = "idle"
          /\ \E u \in UserIds, c \in ChildIds, fault \in SelectFaults :
                GetChildHistory(r, u, c, fault)
    \/ \E r \in ReqIds :
          /\ requests[r].pc = "idle"
          /\ \E u \in UserIds, c \in ChildIds, fault \in SelectFaults :
                GetChildGrowthTrends(r, u, c, fault)
    \/ \E r \in ReqIds : Forget(r)

Spec == Init /\ [][Next]_vars

\* the adapters called on their own
AdapterNext ==
    \/ /\ ml_call.op = "none"
       /\ \E f \in FeatureVectors, pb \in BehavioursOf(prediction_model) :
             CallPredict(f, pb)
    \/ /\ ml_call.op = "none"
       /\ \E s \in StatusArgs, k \in RiskArgs, l \in LanguageArgs,
             rb \in RecommendationBehavioursOf(recommendation_model) :
             CallRecommend(s, k, l, rb)
    \/ /\ ml_call.op = "none"
       /\ \E q \in Questions, l \in LanguageArgs,
             cb \in ChatbotBehavioursOf(chatbot_model) : CallChatbot(q, l, cb)
    \/ CallReturn

AdapterSpec == AdapterInit /\ [][AdapterNext]_vars

\* ------------------------------------------------------ growth histories
\* the rows one child's history may hold, and those of a history whose
\* rows vary in the stored prediction
MaxHistory == 6
MaxPredictedHistory == 4

TrendChild == [child_id |-> 1, parent_id |-> "U", sex |-> "Male"]

\* a record_data of the given age_months, weight_kg (tenths) and height_cm
Measured(age, weight, height) ==
    [BasePayload EXCEPT !.age_months = age, !.weight_kg = weight,
                        !.height_cm = Float(height, 0)]
\* what a finished POST records request leaves in a row: the measurements
\* and the prediction attached to them (None: the attach did not happen)
Shape(age, weight, height, prediction) ==
    [record_data |-> Measured(age, weight, height), prediction |-> prediction]
Predicted(status) ==
    Some(Prediction(status, IF status \in {"Normal", "Overweight"}
                            THEN "No Risk" ELSE "At Risk"))

\* histories whose rows vary in age, weight and height
MeasurementShapes ==
    { Shape(12, 90, 80, None), Shape(12, 100, 84, None),
      Shape(24, 90, 84, Predicted("Stunting")), Shape(24, 100, 80, None),
      Shape(24, 100, 84, None) }
\* histories whose rows vary in age and in the stored prediction
PredictionShapes ==
    { Shape(12, 112, 84, pr)
        : pr \in {None} \cup {Predicted(st) : st \in MalnutritionStatuses} }
    \cup { Shape(24, 112, 84, None), Shape(24, 112, 84, Predicted("Stunting")) }

ShapeOf(g) ==
    [record_data |-> Measured(g.age_months, g.weight_kg, g.height_cm.m),
     prediction |-> IF IsNone(g.prediction_results) THEN None
                    ELSE Some(Prediction(Val(g.prediction_results).malnutrition_status,
                                         Val(g.prediction_results).developmental_risk))]
\* the shapes a further row may take: those of the family the rows so far
\* come from, while the family's bound leaves room
NextShapes ==
    (IF Cardinality(growth_records) < MaxHistory
        /\ \A g \in growth_records : ShapeOf(g) \in MeasurementShapes
     THEN MeasurementShapes ELSE {})
    \cup
    (IF Cardinality(growth_records) < MaxPredictedHistory
        /\ \A g \in growth_records : ShapeOf(g) \in PredictionShapes
     THEN PredictionShapes ELSE {})

\* A POST records request of the child's parent from start to end, no call
\* failing: create_growth_record inserts the row, and
\* update_growth_record_predictions attaches the prediction to it.  The
\* clock has moved on since the last write.
RecordGrowth(shape) ==
    LET now == LastStamp + 1
        res == create_growth_record(TrendChild.child_id, shape.record_data,
                                    TrendChild.parent_id, "none", now)
        row == Val(res.record)
    IN  /\ shape \in NextShapes
        /\ res.status = 200
        /\ growth_records' =
              IF IsNone(shape.prediction) THEN res.rows
              ELSE (res.rows \ {row}) \cup
                   {[row EXCEPT !.prediction_results =
                        Some(StoredPrediction(Val(shape.prediction), now))]}
        /\ UNCHANGED << users, children, requests, model_vars, ml_call, auth_vars >>

\* a call of analyze_growth_trends on behalf of user u; the slot keeps what
\* it returned (body) or raised (status_code, detail)
AnalyzeGrowthTrends(r, u, child_id) ==
    /\ requests[r].pc = "idle"
    /\ \E a \in analyze_growth_trends(child_id, u) :
          requests' = [requests EXCEPT ![r] =
              Done(Started("analyze", u, child_id, BasePayload),
                   Response(a.status, a.detail,
                            IF a.status = 200 THEN Some(a.analysis) ELSE None))]
    /\ UNCHANGED << users, children, growth_records, model_vars, ml_call, auth_vars >>

TrendInit ==
    /\ users = ("U" :> [language |-> "english"] @@ "V" :> [language |-> "swahili"])
    /\ children = {TrendChild}
    /\ growth_records = {}
    /\ requests = [r \in ReqIds |-> IdleRequest]
    /\ ml_call = NoCall
    /\ AuthAtRest
    /\ prediction_model = "absent"
    /\ recommendation_model = "absent"
    /\ chatbot_model = "absent"

\* one client: it has read a response before it sends the next request
TrendNext ==
    \/ /\ \A r \in ReqIds : requests[r].pc = "idle"
       /\ \E shape \in MeasurementShapes \cup PredictionShapes : RecordGrowth(shape)
    \/ \E r \in ReqIds, u \in UserIds :
          AnalyzeGrowthTrends(r, u, TrendChild.child_id)
    \/ \E r \in ReqIds : Forget(r)

TrendSpec == TrendInit /\ [][TrendNext]_vars

\* --------------------------------------------------- /api/v1/ml endpoints
\* the language member of a request body: left out, null, or a value
LanguageFields == {"omitted", "null", "english", "swahili"}
\* ChatbotRequest.language / RecommendationRequest.language after pydantic:
\* Optional[Literal[...]] = Field(default="english")
ParseLanguage(field) ==
    IF field = "omitted" THEN Some("english")
    ELSE IF field = "null" THEN None
    ELSE Some(field)
\* `request.language or current_user.language`
LanguageOr(parsed, preference) == IF IsNone(parsed) THEN preference ELSE Val(parsed)

\* what a handler of the ml router did: its response, the language it
\* chose, and what predict_malnutrition_risk returned if it was called
MlResult(response, language, prediction_result) ==
    [response |-> response, language |-> language,
     prediction_result |-> prediction_result]

\* POST /chatbot
chatbot_question(preference, question, field, model, cb) ==
    LET language == LanguageOr(ParseLanguage(field), preference)
        answer == get_chatbot_answer(question, language, model, cb)
    IN  IF answer.sentences = 0
        THEN MlResult(Response(500, Localized(language,
                                   "Imeshindwa kutoa jibu sahihi. Tafadhali jaribu tena.",
                                   "Unable to generate a proper response. Please try again."),
                               None),
                      language, None)
        ELSE MlResult(Response(200, "", Some([answer |-> answer])), language, None)

\* POST /recommend
get_nutrition_recommendation(preference, status, risk, field, model, rb) ==
    LET language == LanguageOr(ParseLanguage(field), preference)
        recommendation == get_recommendation(status, risk, language, model, rb)
    IN  IF recommendation.sentences = 0
        THEN MlResult(Response(500, Localized(language,
                                   "Imeshindwa kutoa mapendekezo sahihi. Tafadhali jaribu tena.",
                                   "Unable to generate proper recommendations. Please try again."),
                               None),
                      language, None)
        ELSE MlResult(Response(200, "", Some([recommendation |-> recommendation])),
                      language, None)

\* the PredictionRequest bodies the model draws from: ages, weights and
\* heights on both sides of the handlers' tests, Z-scores on both sides of
\* the fallback rule's thresholds, and one age below the schema's range
PredictionRequests ==
    { [BaseFeatures EXCEPT !.Age_Months = a, !.Weight_kg = w, !.Height_cm = h,
                           !.Height_for_Age_ZScore = z]
        : a \in {-1, 0, 1, 24}, w \in {0, 1, 112},
          h \in {Float(0, 0), Float(1, DoubleMinExp10 + 1), Float(84, 0)},
          z \in {-35, 0} }
\* PredictionRequest: the Field(ge=..., le=...) constraints of the three
\* members the handlers test
ValidPredictionRequest(request) ==
    /\ 0 <= request.Age_Months /\ request.Age_Months <= 60
    /\ 0 <= request.Weight_kg /\ request.Weight_kg <= 500
    /\ ~FloatLt(request.Height_cm, Float(0, 0)) /\ FloatLeInt(request.Height_cm, 150)

\* a variant that tests the age only
CriticalFeaturesAgeOnly(request) ==
    IF request.Age_Months <= 0
    THEN Some(Response(400, "Age must be greater than 0 months", None))
    ELSE None

\* the `# Validate critical features` block of /predict and /analyze: the
\* response it raises, or None
CriticalFeatures(request) ==
    IF request.Age_Months <= 0
    THEN Some(Response(400, "Age must be greater than 0 months", None))
    ELSE IF request.Weight_kg <= 0 \/ ~FloatGtZero(request.Height_cm)
    THEN Some(Response(400, "Weight and height must be positive values", None))
    ELSE None

\* POST /predict (the handler predict_malnutrition_risk of the ml router)
predict_endpoint(request, model, pb) ==
    IF ~ValidPredictionRequest(request)
    THEN MlResult(Response(422, "validation", None), "", None)
    ELSE IF ~IsNone(CriticalFeatures(request))
    THEN MlResult(Val(CriticalFeatures(request)), "", None)
    ELSE LET prediction_result == predict_malnutrition_risk(request, model, pb)
         IN  IF /\ prediction_result.malnutrition_status \in MalnutritionStatuses
                /\ prediction_result.developmental_risk \in DevelopmentalRisks
             THEN MlResult(Response(200, "", Some(prediction_result)), "",
                           Some(prediction_result))
             ELSE MlResult(Response(500,
                              "Error processing prediction. Please check your input data.",
                              None),
                           "", Some(prediction_result))

\* POST /analyze
analyze_child_nutrition(preference, request, model, pb, rmodel, rb) ==
    IF ~ValidPredictionRequest(request)
    THEN MlResult(Response(422, "validation", None), "", None)
    ELSE IF ~IsNone(CriticalFeatures(request))
    THEN MlResult(Val(CriticalFeatures(request)), "", None)
    ELSE LET prediction_result == predict_malnutrition_risk(request, model, pb)
             recommendation ==
                 get_recommendation(prediction_result.malnutrition_status,
                                    prediction_result.developmental_risk,
                                    preference, rmodel, rb)
         IN  MlResult(Response(200, "",
                         Some([prediction |-> prediction_result,
                               recommendation |-> recommendation,
                               child_info |->
                                   [age_months |-> request.Age_Months,
                                    sex |-> request.Sex,
                                    weight_kg |-> request.Weight_kg,
                                    height_cm |-> request.Height_cm]])),
                      preference, Some(prediction_result))

\* a request to the ml router, handled from start to end; the slot keeps the
\* request body, the handler's language and the adapter's prediction
MlDone(kind, u, body, res) ==
    [Done(Started(kind, u, 0, body), res.response)
        EXCEPT !.language = res.language, !.prediction_result = res.prediction_result]

PostChatbot(r, u, question, field, cb) ==
    /\ requests[r].pc = "idle"
    /\ requests' = [requests EXCEPT ![r] =
          MlDone("chatbot", u, [question |-> question, language |-> field],
                 chatbot_question(users[u].language, question, field, chatbot_model, cb))]
    /\ UNCHANGED << users, children, growth_records, model_vars, ml_call, auth_vars >>

PostRecommend(r, u, status, risk, field, rb) ==
    /\ requests[r].pc = "idle"
    /\ requests' = [requests EXCEPT ![r] =
          MlDone("recommend", u,
                 [malnutrition_status |-> status, developmental_risk |-> risk,
                  language |-> field],
                 get_nutrition_recommendation(users[u].language, status, risk, field,
                                              recommendation_model, rb))]
    /\ UNCHANGED << users, children, growth_records, model_vars, ml_call, auth_vars >>

PostPredict(r, u, request, pb) ==
    /\ requests[r].pc = "idle"
    /\ requests' = [requests EXCEPT ![r] =
          MlDone("predict", u, request,
                 predict_endpoint(request, prediction_model, pb))]
    /\ UNCHANGED << users, children, growth_records, model_vars, ml_call, auth_vars >>

PostAnalyze(r, u, request, pb, rb) ==
    /\ requests[r].pc = "idle"
    /\ requests' = [requests EXCEPT ![r] =
          MlDone("analyze_nutrition", u, request,
                 analyze_child_nutrition(users[u].language, request, prediction_model,
                                         pb, recommendation_model, rb))]
    /\ UNCHANGED << users, children, growth_records, model_vars, ml_call, auth_vars >>

MlNext ==
    \/ \E r \in ReqIds :
          /\ requests[r].pc = "idle"
          /\ \E u \in UserIds, q \in Questions, field \in LanguageFields,
                cb \in ChatbotBehavioursOf(chatbot_model) :
                PostChatbot(r, u, q, field, cb)
    \/ \E r \in ReqIds :
          /\ requests[r].pc = "idle"
          /\ \E u \in UserIds, k \in RecommendationKeys, field \in LanguageFields,
                rb \in RecommendationBehavioursOf(recommendation_model) :
                PostRecommend(r, u, k[1], k[2], field, rb)
    \/ \E r \in ReqIds :
          /\ requests[r].pc = "idle"
          /\ \E u \in UserIds, request \in PredictionRequests,
                pb \in BehavioursOf(prediction_model) :
                PostPredict(r, u, request, pb)
    \/ \E r \in ReqIds :
          /\ requests[r].pc = "idle"
          /\ \E u \in UserIds, request \in PredictionRequests,
                pb \in BehavioursOf(prediction_model),
                rb \in RecommendationBehavioursOf(recommendation_model) :
                PostAnalyze(r, u, request, pb, rb)
    \/ \E r \in ReqIds : Forget(r)

MlSpec == AdapterInit /\ [][MlNext]_vars

\* ------------------------------------------------------- the auth router
\* the accounts of the token specification: an active user, one whose
\* is_active is false, and (id 3) one whose row is gone
ActiveUser ==
    [id |-> 1, email |-> "a@example.com", name |-> "Amina", is_active |-> TRUE,
     password_hash |-> "registered"]
InactiveUser ==
    [id |-> 2, email |-> "b@example.com", name |-> "Baraka", is_active |-> FALSE,
     password_hash |-> "registered"]
\* the refresh tokens the last two were given while they could log in
EarlierTokens ==
    { create_refresh_token(InactiveUser.id, 1, 0), create_refresh_token(3, 2, 0) }

AuthInit ==
    /\ users = ("U" :> [language |-> "english"] @@ "V" :> [language |-> "swahili"])
    /\ children = {}
    /\ growth_records = {}
    /\ requests = [r \in ReqIds |-> IdleRequest]
    /\ ml_call = NoCall
    /\ prediction_model = "absent"
    /\ recommendation_model = "absent"
    /\ chatbot_model = "absent"
    /\ accounts = {ActiveUser, InactiveUser}
    /\ revoked_tokens = {}
    /\ tokens = EarlierTokens
    /\ clock = 0
    /\ auth_requests = [a \in AuthSlots |-> IdleAuthRequest]

\* one client at the slot a1
AuthNext ==
    \/ \E email \in Emails, password_ok \in BOOLEAN : Login("a1", email, password_ok)
    \/ \E token \in tokens : Logout("a1", token)
    \/ \E token \in tokens : ProtectedVerify("a1", token)
    \/ ProtectedCheck("a1")
    \/ \E token \in tokens \cup {Garbage} : RefreshVerify("a1", token)
    \/ RefreshIssue("a1")
    \/ Tick
    \/ AuthForget("a1")

AuthSpec == AuthInit /\ [][AuthNext]_vars

\* registrations from two clients at once
RegisterNext ==
    \/ \E a \in AuthSlots, email \in Emails, name \in Names : RegisterStart(a, email, name)
    \/ \E a \in AuthSlots : RegisterCommit(a)
    \/ \E a \in AuthSlots : AuthForget(a)

RegisterSpec == Init /\ [][RegisterNext]_vars

\* ------------------------------------------------- a deactivated account
\* what the deactivated user was given while it could log in, at instant 0:
\* an access token, a refresh token and a password reset token
DeactivatedTokens ==
    { create_access_token(InactiveUser.id, 1, 0),
      create_refresh_token(InactiveUser.id, 2, 0),
      create_password_reset_token(InactiveUser.email, 0) }
\* and the child it registered
DeactivatedChild == [child_id |-> 1, parent_id |-> InactiveUser.id, sex |-> "Male"]

DeactivatedInit ==
    /\ users = ("U" :> [language |-> "english"] @@ "V" :> [language |-> "swahili"])
    /\ children = {DeactivatedChild}
    /\ growth_records = {}
    /\ requests = [r \in ReqIds |-> IdleRequest]
    /\ ml_call = NoCall
    /\ prediction_model = "absent"
    /\ recommendation_model = "absent"
    /\ chatbot_model = "absent"
    /\ accounts = {ActiveUser, InactiveUser}
    /\ revoked_tokens = {}
    /\ tokens = DeactivatedTokens
    /\ clock = 0
    /\ auth_requests = [a \in AuthSlots |-> IdleAuthRequest]

\* one client at the slot a1, with every token ever issued
DeactivatedNext ==
    \/ \E email \in Emails, password_ok \in BOOLEAN : Login("a1", email, password_ok)
    \/ \E token \in tokens \cup {Garbage} : RefreshVerify("a1", token)
    \/ RefreshIssue("a1")
    \/ \E email \in Emails : RequestPasswordReset("a1", email)
    \/ \E token \in tokens \cup {Garbage}, new_password \in NewPasswords :
          ResetPassword("a1", token, new_password)
    \/ \E token \in tokens : RegisterChildVerify("a1", token)
    \/ \E sex \in Sexes : RegisterChildAs("a1", sex)
    \/ Tick
    \/ AuthForget("a1")

DeactivatedSpec == DeactivatedInit /\ [][DeactivatedNext]_vars

\* ------------------------------------ the endpoints with no model loaded
\* the children router and POST /analyze, no model file having been found
FallbackNext ==
    \/ Next
    \/ \E r \in ReqIds :
          /\ requests[r].pc = "idle"
          /\ \E u \in UserIds, request \in PredictionRequests :
                PostAnalyze(r, u, request, NoBehaviour, NoRecommendationBehaviour)

FallbackSpec == Init /\ [][FallbackNext]_vars

\* ------------------------------------------ concurrent POST records
\* two clients of the same parent, each with one request for the same child
ConcurrentReqIds == {"r1", "r2"}
\* bodies whose fallback predictions differ: Normal, Stunting, Overweight
ConcurrentPayloads ==
    {p \in Payloads :
        /\ ValidGrowthRecordCreate(p)
        /\ calculate_bmi(p.weight_kg, p.height_cm).ok}

ConcurrentInit ==
    /\ users = ("U" :> [language |-> "english"] @@ "V" :> [language |-> "swahili"])
    /\ children = {TrendChild}
    /\ growth_records = {}
    /\ requests = [r \in ConcurrentReqIds |-> IdleRequest]
    /\ ml_call = NoCall
    /\ AuthAtRest
    /\ prediction_model = "absent"
    /\ recommendation_model = "absent"
    /\ chatbot_model = "absent"

\* the steps of the two requests in any order, no database call failing;
\* the clock moves on between two writes, or does not
ConcurrentNext ==
    \/ \E r \in ConcurrentReqIds, p \in ConcurrentPayloads, now \in Nows :
          PostRecords_Create(r, TrendChild.parent_id, TrendChild.child_id, p, "none", now)
    \/ \E r \in ConcurrentReqIds :
          PostRecords_Predict(r, "none", NoBehaviour, NoRecommendationBehaviour)
    \/ \E r \in ConcurrentReqIds, now \in Nows : PostRecords_Attach(r, "none", now)

ConcurrentSpec == ConcurrentInit /\ [][ConcurrentNext]_vars

\* ------------------------------------------ histories read while written
\* the rows the child may have
HistoryRows == 2
\* one client of the owner posts records for the child, the attach failing
\* or not, while another client, of the owner or of another user, reads
\* the child's history at any point
HistoryNext ==
    \/ \E p \in ConcurrentPayloads, now \in Nows :
          /\ Cardinality(growth_records) < HistoryRows
          /\ PostRecords_Create("r1", TrendChild.parent_id, TrendChild.child_id, p,
                                "none", now)
    \/ PostRecords_Predict("r1", "none", NoBehaviour, NoRecommendationBehaviour)
    \/ \E fault \in UpdateFaults :
          \E now \in (IF fault = "none" THEN Nows ELSE {LastStamp}) :
             PostRecords_Attach("r1", fault, now)
    \/ \E u \in UserIds, fault \in SelectFaults :
          GetChildHistory("r2", u, TrendChild.child_id, fault)
    \/ \E r \in ConcurrentReqIds : Forget(r)

HistorySpec == ConcurrentInit /\ [][HistoryNext]_vars

\* =============================================================== properties
\* -------------------------------------------------------------- ownership
\* an id no child row has: ids are handed out from 1 to MaxChildren
NoChildId == MaxChildren + 1
Owns(u, child_id) == \E c \in children : c.child_id = child_id /\ c.parent_id = u
\* the children registered by somebody other than u
ChildrenOfOthers(u) == {c.child_id : c \in {x \in children : x.parent_id # u}}
\* the limits the callers of get_child_growth_history pass
Limits == {None, Some(1), Some(5), Some(10)}
SamplePrediction == Prediction("Stunting", "At Risk")

\* C1: whatever children and growth records have been registered, an operation
\* of user u that names a child of another user (create_growth_record,
\* get_child_growth_history, get_latest_growth_record, analyze_growth_trends,
\* POST /records, GET /history, GET /trends) has exactly the outcome of the
\* same operation on an id no child has, returns no row and no response body,
\* and leaves the stored rows as they were; with a body that passes validation
\* and a database that answers, that outcome is 404 Not Found.  (The
\* operations read the tables only, so they are evaluated where no request is
\* in flight: every content of the tables occurs in such a state.)
C1_OtherUsersChildIsNotFound ==
    /\ (\A r \in ReqIds : requests[r].pc = "idle") =>
       \A u \in UserIds : \A c \in ChildrenOfOthers(u) :
          /\ \A p \in Payloads, fault \in CreateFaults, now \in Nows :
                LET crud == create_growth_record(c, p, u, fault, now)
                    post == ValidatedCreate(c, p, u, fault, now)
                IN  /\ crud = create_growth_record(NoChildId, p, u, fault, now)
                    /\ post = ValidatedCreate(NoChildId, p, u, fault, now)
                    /\ crud.record = None /\ crud.rows = growth_records
                    /\ post.record = None /\ post.rows = growth_records
                    /\ fault = "none" => crud.status = 404
                    /\ (fault = "none" /\ ValidGrowthRecordCreate(p)) => post.status = 404
          /\ \A limit \in Limits :
                /\ get_child_growth_history(c, u, limit)
                      = {ReadResult(404, "Child not found", <<>>)}
                /\ get_child_growth_history(c, u, limit)
                      = get_child_growth_history(NoChildId, u, limit)
          /\ get_latest_growth_record(c, u) = get_latest_growth_record(NoChildId, u)
          /\ \A l \in get_latest_growth_record(c, u) : l.status = 404 /\ l.record = None
          /\ analyze_growth_trends(c, u) = analyze_growth_trends(NoChildId, u)
          /\ \A a \in analyze_growth_trends(c, u) :
                a.status = 404 /\ a.analysis = TrendsOf(<<>>)
          /\ \A fault \in SelectFaults :
                LET language == users[u].language
                    history == get_child_history(u, language, c, fault)
                    trends == get_child_growth_trends(u, language, c, fault)
                IN  /\ history = get_child_history(u, language, NoChildId, fault)
                    /\ trends = get_child_growth_trends(u, language, NoChildId, fault)
                    /\ \A resp \in history \cup trends :
                          /\ resp.body = None
                          /\ fault = "none" => resp.status_code = 404
    /\ \A r \in ReqIds :
          LET req == requests[r]
          IN  (req.pc # "idle" /\ ~Owns(req.user, req.child_id)) =>
                 /\ req.pc = "done"
                 /\ Val(req.response).status_code \in {404, 422, 500}
                 /\ Val(req.response).body = None
                 /\ growth_records = req.records_before

\* U has posted a valid record for V's child, which has a record of its own,
\* and has been answered 404
C1_Witness ==
    \E r \in ReqIds :
        LET req == requests[r]
        IN  /\ req.pc = "done" /\ req.kind = "records" /\ req.user = "U"
            /\ ValidGrowthRecordCreate(req.payload)
            /\ Owns("V", req.child_id)
            /\ \E g \in growth_records : g.child_id = req.child_id
            /\ req.response = Some(Response(404, "Child not found", None))

\* C2: every CRUD operation on growth records (create_growth_record,
\* update_growth_record_predictions, get_child_growth_history,
\* get_latest_growth_record, analyze_growth_trends) checks that the record's
\* child belongs to the requesting parent before it reads or modifies the
\* record: for a parent who does not own the child of a stored record, no
\* operation returns that record or changes the table, and no operation
\* modifies a record on its record_id alone.
C2_EveryOperationVerifiesOwnership ==
    \A u \in UserIds : \A g \in growth_records :
        ~Owns(u, g.child_id) =>
            /\ \A p \in Payloads, fault \in CreateFaults, now \in Nows :
                  create_growth_record(g.child_id, p, u, fault, now).rows = growth_records
            /\ \A limit \in Limits :
                  \A h \in get_child_growth_history(g.child_id, u, limit) :
                     \A i \in 1 .. Len(h.records) : h.records[i] # g
            /\ \A l \in get_latest_growth_record(g.child_id, u) : l.record # Some(g)
            /\ \A a \in analyze_growth_trends(g.child_id, u) : a.status # 200
            /\ \A fault \in UpdateFaults, now \in Nows :
                  update_growth_record_predictions(g.record_id, SamplePrediction,
                                                   fault, now).rows = growth_records

\* ------------------------------------------------------- the record ingestor
\* a POST /records request that holds the row create_growth_record returned
HoldsRecord(req) ==
    /\ req.kind = "records"
    /\ \/ req.pc \in {"created", "predicted"}
       \/ req.pc = "done" /\ Val(req.response).status_code = 200
\* update_growth_record_predictions has run for the request's row and succeeded
Updated(req) == req.pc = "done" /\ req.attached
\* the Z-score and percentile fields the payload supplies
Supplied(p) == {k \in ZScoreKeys \cup PercentileKeys : p[k] # None}

\* C8: once create_growth_record has succeeded for payload p on an owned
\* child, the child's history holds the new record with p's age_months,
\* weight_kg, height_cm, muac_cm, diet_diversity_score and recent_infection,
\* with z_scores_percentiles holding exactly the Z-scores and percentiles p
\* supplied at their supplied values (absent when p supplied none), with bmi
\* set, and with prediction_results absent until
\* update_growth_record_predictions has run for that record.
C8_CreateReadRoundTrip ==
    \A r \in ReqIds :
        LET req == requests[r]
            p == req.payload
        IN  HoldsRecord(req) =>
               \A h \in get_child_growth_history(req.child_id, req.user, None) :
                  /\ h.status = 200
                  /\ \E i \in 1 .. Len(h.records) :
                        LET g == h.records[i]
                        IN  /\ g.record_id = Val(req.growth_record).record_id
                            /\ g.age_months = p.age_months
                            /\ g.weight_kg = p.weight_kg
                            /\ g.height_cm = p.height_cm
                            /\ g.muac_cm = p.muac_cm
                            /\ g.diet_diversity_score = p.diet_diversity_score
                            /\ g.recent_infection = p.recent_infection
                            /\ (g.z_scores_percentiles = None) <=> (Supplied(p) = {})
                            /\ Supplied(p) # {} =>
                                  /\ DOMAIN Val(g.z_scores_percentiles) = Supplied(p)
                                  /\ \A k \in Supplied(p) :
                                        Val(g.z_scores_percentiles)[k] = Val(p[k])
                            /\ g.bmi # None
                            /\ (g.prediction_results = None) <=> ~Updated(req)

\* a payload that supplies a Z-score and a percentile of 0 has been stored and
\* its prediction attached
C8_Witness ==
    \E r \in ReqIds :
        LET req == requests[r]
        IN  /\ HoldsRecord(req) /\ Updated(req)
            /\ req.payload.weight_for_age_zscore = Some(0)
            /\ req.payload.weight_for_age_percentile = Some(0)
            /\ \E g \in growth_records :
                  /\ g.record_id = Val(req.growth_record).record_id
                  /\ g.prediction_results # None

\* weight_kg / (height_cm / 100)^2 to two decimals, for a height in whole cm
RoundedQuotient(p) ==
    RoundHalfEven(p.weight_kg * 100000, p.height_cm.m * p.height_cm.m)

\* C9: for every payload validation accepts, the bmi stored on the new row,
\* the BMI of the prediction feature vector and the bmi_calculated of the
\* response are one value, weight_kg / (height_cm/100)^2 rounded to two
\* decimals, and the division never has a zero divisor: on an owned child and
\* a database that answers, create_growth_record returns the row with that bmi.
C9_BmiIsTheRoundedQuotient ==
    /\ \A u \in UserIds, c \in ChildIds, p \in Payloads, now \in Nows :
          (Owns(u, c) /\ ValidGrowthRecordCreate(p)) =>
             LET res == create_growth_record(c, p, u, "none", now)
             IN  /\ calculate_bmi(p.weight_kg, p.height_cm).ok
                 /\ res.status = 200
                 /\ Val(res.record).bmi = Some(RoundedQuotient(p))
    /\ \A r \in ReqIds :
          LET req == requests[r]
          IN  (HoldsRecord(req) /\ req.pc # "created") =>
                 /\ Val(req.growth_record).bmi = Some(RoundedQuotient(req.payload))
                 /\ Val(req.prediction_features).BMI = RoundedQuotient(req.payload)
                 /\ \A g \in growth_records :
                       g.record_id = Val(req.growth_record).record_id
                          => g.bmi = Val(req.growth_record).bmi
                 /\ req.pc = "done" =>
                       Val(Val(req.response).body).bmi_calculated
                          = Some(RoundedQuotient(req.payload))

\* C10: creating a growth record inserts exactly one row on success, and
\* whenever POST /records or create_growth_record ends in an error (404, or
\* 500 because persistence or a later step failed) the stored growth records
\* are the ones stored before the request.
C10_ErrorLeavesRecordsAsBefore ==
    /\ \A u \in UserIds, c \in ChildIds, p \in Payloads, fault \in CreateFaults,
          now \in Nows :
          LET res == create_growth_record(c, p, u, fault, now)
          IN  IF res.status = 200
              THEN /\ growth_records \subseteq res.rows
                   /\ Cardinality(res.rows \ growth_records) = 1
              ELSE res.rows = growth_records
    /\ \A r \in ReqIds :
          LET req == requests[r]
              ids(rows) == {g.record_id : g \in rows}
          IN  (req.kind = "records" /\ req.pc = "done") =>
                 IF Val(req.response).status_code = 200
                 THEN /\ ids(req.records_before) \subseteq ids(growth_records)
                      /\ Cardinality(ids(growth_records) \ ids(req.records_before)) = 1
                 ELSE growth_records = req.records_before

\* ------------------------------------------------------------ the adapters
\* the arguments of the call on record
CalledPredict == ml_call.op = "predict"
CalledRecommend == ml_call.op = "recommend"
CalledChatbot == ml_call.op = "chatbot"
CallResult == Val(ml_call.result)

\* C3: predict_malnutrition_risk returns a malnutrition status among Normal,
\* Stunting, Underweight, Overweight, Severe and a developmental risk among
\* No Risk, At Risk, High Risk, for every feature vector and whatever the
\* prediction model slot does: absent, raising, or returning integer codes of
\* any value in any of the shapes the adapter reads.
C3_PredictionLabelsInRange ==
    CalledPredict =>
        /\ CallResult.malnutrition_status \in MalnutritionStatuses
        /\ CallResult.developmental_risk \in DevelopmentalRisks

\* a loaded model has returned a status code and a risk code that are keys of
\* neither label table
C3_Witness ==
    /\ CalledPredict
    /\ prediction_model = "loaded"
    /\ Val(ml_call.behaviour).kind = "list"
    /\ Val(ml_call.behaviour).vals = <<5, -1>>
    /\ CallResult = Prediction("Normal", "No Risk")

\* C4: when the loaded model, or the preparation of its input, raises, the
\* adapter returns exactly what its fallback returns for the same arguments:
\* _get_fallback_prediction(features), _get_fallback_recommendation(status,
\* risk, language), _get_fallback_chatbot_answer(question, language).
C4_ExceptionGivesFallback ==
    ml_call.raises =>
        /\ CalledPredict => CallResult = _get_fallback_prediction(ml_call.features)
        /\ CalledRecommend =>
              CallResult = _get_fallback_recommendation(ml_call.status, ml_call.risk,
                                                        ml_call.language)
        /\ CalledChatbot =>
              CallResult = _get_fallback_chatbot_answer(ml_call.question,
                                                        ml_call.language)

\* the loaded prediction model has raised on a vector the rules call Stunting
C4_Witness ==
    /\ CalledPredict
    /\ ml_call.raises
    /\ Val(ml_call.behaviour).kind = "raise"
    /\ ml_call.features.Height_for_Age_ZScore = -25
    /\ CallResult = Prediction("Stunting", "At Risk")

\* The ordered rule, on h and w in tenths and b in hundredths.
OrderedRuleStatus(h, w, b) ==
    IF h < -20 THEN "Stunting"
    ELSE IF w < -20 THEN "Underweight"
    ELSE IF b > 2500 THEN "Overweight"
    ELSE IF w < -30 \/ h < -30 THEN "Severe"
    ELSE "Normal"
OrderedRuleRisk(status) ==
    CASE status = "Severe" -> "High Risk"
      [] status \in {"Stunting", "Underweight", "Overweight"} -> "At Risk"
      [] status = "Normal" -> "No Risk"

\* C5: with no prediction model loaded, predict_malnutrition_risk returns the
\* result of the ordered rule on h, w and b (h < -2 Stunting; else w < -2
\* Underweight; else b > 25 Overweight; else w < -3 or h < -3 Severe; else
\* Normal; High Risk for Severe, At Risk for Stunting, Underweight and
\* Overweight, No Risk for Normal); two vectors that agree on h, w and b get
\* the same result; h = -2.5 with w and b normal gives Stunting and At Risk.
C5_FallbackIsTheOrderedRule ==
    (CalledPredict /\ prediction_model = "absent") =>
        LET f == ml_call.features
            h == f.Height_for_Age_ZScore
            w == f.Weight_for_Age_ZScore
            b == f.BMI
            status == OrderedRuleStatus(h, w, b)
        IN  /\ CallResult = Prediction(status, OrderedRuleRisk(status))
            /\ \A g \in FeatureVectors :
                  ( /\ g.Height_for_Age_ZScore = h
                    /\ g.Weight_for_Age_ZScore = w
                    /\ g.BMI = b )
                  => predict_malnutrition_risk(g, prediction_model, NoBehaviour) = CallResult
            /\ (h = -25 /\ w = 0 /\ b = 1587) => CallResult = Prediction("Stunting", "At Risk")

\* no model, height Z -2.5, weight Z 0, BMI 15.87: Stunting, At Risk
C5_Witness ==
    /\ CalledPredict
    /\ prediction_model = "absent"
    /\ ml_call.features.Height_for_Age_ZScore = -25
    /\ ml_call.features.Weight_for_Age_ZScore = 0
    /\ ml_call.features.BMI = 1587
    /\ CallResult = Prediction("Stunting", "At Risk")

\* C6: with no prediction model loaded, every feature vector whose weight-for-age
\* and height-for-age Z-scores are both below -3 gets Severe and High Risk,
\* whatever its BMI.
C6_BothBelowMinusThreeIsSevere ==
    ( /\ CalledPredict
      /\ prediction_model = "absent"
      /\ ml_call.features.Weight_for_Age_ZScore < -30
      /\ ml_call.features.Height_for_Age_ZScore < -30 )
    => CallResult = Prediction("Severe", "High Risk")

\* C7: get_recommendation(status, risk, "swahili") returns the Swahili table
\* entry of (status, risk), or the Swahili generic message when the pair is no
\* key of the table, whether the recommendation model is absent, loaded and
\* returning any text, or loaded and raising.
C7_SwahiliIsAlwaysTheStaticText ==
    (CalledRecommend /\ ml_call.language = "swahili") =>
        CallResult =
            IF <<ml_call.status, ml_call.risk>> \in RecommendationKeys
            THEN TableText("swahili", ml_call.status, ml_call.risk)
            ELSE GenericText("swahili")

\* a loaded model has answered with a text of its own, and the caller has the
\* Swahili table entry
C7_Witness ==
    /\ CalledRecommend
    /\ ml_call.language = "swahili"
    /\ recommendation_model = "loaded"
    /\ ~ml_call.raises
    /\ Val(ml_call.behaviour).text.source = "model"
    /\ CallResult = TableText("swahili", "Stunting", "At Risk")

\* --------------------------------------------------------- growth trends
\* the requests that called analyze_growth_trends and got its dictionary
Analyzed(req) ==
    /\ req.kind = "analyze" /\ req.pc = "done"
    /\ Val(req.response).status_code = 200
Analysis(req) == Val(Val(req.response).body)
\* the child's rows at the call, from the oldest recorded to the newest
\* recorded (the timestamps of a history are distinct)
History(req) ==
    LET desc == CHOOSE s \in OrderedByRecordedAtDesc(
                    {g \in req.records_before : g.child_id = req.child_id}) : TRUE
    IN  [i \in 1 .. Len(desc) |-> desc[Len(desc) + 1 - i]]

\* C11: for a child with exactly two growth records whose weights, from the
\* oldest recorded to the newest recorded, are 10.0 and 9.0,
\* analyze_growth_trends returns trends['weight'] = 'decreasing' and a
\* non-empty alerts list, whatever the records' other fields are.
C11_TenThenNineIsDecreasing ==
    \A r \in ReqIds :
       LET req == requests[r]
           h == History(req)
       IN  ( /\ Analyzed(req)
             /\ Len(h) = 2
             /\ h[1].weight_kg = 100 /\ h[2].weight_kg = 90 )
           => /\ Analysis(req).trends # <<>>
              /\ Analysis(req).trends["weight"] = "decreasing"
              /\ Analysis(req).alerts # <<>>

\* C12: for an owned child with zero or one growth record,
\* analyze_growth_trends returns exactly trends = {} and alerts = [],
\* whatever prediction the single record stores.
C12_FewerThanTwoRecordsIsEmpty ==
    \A r \in ReqIds :
       LET req == requests[r]
       IN  ( /\ req.kind = "analyze" /\ req.pc = "done"
             /\ \E c \in children :
                   c.child_id = req.child_id /\ c.parent_id = req.user
             /\ Len(History(req)) <= 1 )
           => /\ Val(req.response).status_code = 200
              /\ Analysis(req).trends = <<>>
              /\ Analysis(req).alerts = <<>>
              /\ Analysis(req).total_records = None
\* a single record with a stored Severe prediction has been analysed
C12_Witness ==
    \E r \in ReqIds :
       /\ Analyzed(requests[r])
       /\ Len(History(requests[r])) = 1
       /\ ~IsNone(History(requests[r])[1].prediction_results)
       /\ Val(History(requests[r])[1].prediction_results).malnutrition_status = "Severe"
       /\ Analysis(requests[r]).alerts = <<>>

\* the at most 5 most recently recorded rows of the history
Window(req) == LastN(History(req), 5)
HasAlert(req, text) ==
    \E i \in 1 .. Len(Analysis(req).alerts) : Analysis(req).alerts[i].text = text
\* the ends of the window in ascending order of age_months; among rows of
\* the same age the sort keeps the order of the query, newest recorded first
FirstByAge(w) ==
    CHOOSE i \in 1 .. Len(w) :
       \A j \in 1 .. Len(w) :
          \/ w[i].age_months < w[j].age_months
          \/ w[i].age_months = w[j].age_months /\ j <= i
LastByAge(w) ==
    CHOOSE i \in 1 .. Len(w) :
       \A j \in 1 .. Len(w) :
          \/ w[i].age_months > w[j].age_months
          \/ w[i].age_months = w[j].age_months /\ i <= j

\* C19: when the window of the at most 5 most recently recorded records
\* holds 2 or more, the weight trend is increasing, decreasing or stable as
\* the weight of the window's last record in ascending age_months is
\* greater than, less than or equal to that of its first, and likewise the
\* height trend; the weight alert is present exactly when the weight trend
\* is decreasing and the height alert exactly when the height trend is;
\* records outside the window do not influence the result.
C19_TrendsCompareTheEndsOfTheWindow ==
    \A r \in ReqIds :
       LET req == requests[r]
           w == Window(req)
           first == w[FirstByAge(w)]
           last == w[LastByAge(w)]
           trends == Analysis(req).trends
       IN  (Analyzed(req) /\ Len(w) >= 2) =>
              /\ DOMAIN trends = {"weight", "height"}
              /\ trends["weight"] =
                    (IF last.weight_kg > first.weight_kg THEN "increasing"
                     ELSE IF last.weight_kg < first.weight_kg THEN "decreasing"
                     ELSE "stable")
              /\ trends["height"] =
                    (IF FloatGt(last.height_cm, first.height_cm) THEN "increasing"
                     ELSE IF FloatLt(last.height_cm, first.height_cm) THEN "decreasing"
                     ELSE "stable")
              /\ HasAlert(req, "Weight showing decreasing trend")
                    <=> (trends["weight"] = "decreasing")
              /\ HasAlert(req, "Height showing concerning pattern")
                    <=> (trends["height"] = "decreasing")
              /\ Analysis(req).total_records = Some(Len(w))
\* a history of more than 5 records has been analysed, the weight falling
\* and the height rising over the window, and the record outside the window
\* is one that would have been the first in ascending age_months
C19_Witness ==
    \E r \in ReqIds :
       LET req == requests[r]
           h == History(req)
       IN  /\ Analyzed(req)
           /\ Len(h) > 5
           /\ Analysis(req).trends["weight"] = "decreasing"
           /\ Analysis(req).trends["height"] = "increasing"
           /\ HasAlert(req, "Weight showing decreasing trend")
           /\ ~HasAlert(req, "Height showing concerning pattern")
           /\ \A i \in 1 .. Len(Window(req)) :
                 h[1].age_months < Window(req)[i].age_months
           /\ h[1].weight_kg < Window(req)[FirstByAge(Window(req))].weight_kg

\* the stored statuses of rows that store a prediction
StoredStatuses(rows) ==
    {Val(rows[i].prediction_results).malnutrition_status
        : i \in {j \in 1 .. Len(rows) : ~IsNone(rows[j].prediction_results)}}
StatusAlerts(req) ==
    {i \in 1 .. Len(Analysis(req).alerts) :
        Analysis(req).alerts[i].text = "Concerning nutritional status"}

\* C20: with 2 or more records, alerts contains a 'Concerning nutritional
\* status: <status>' alert exactly when one of the child's 3 most recent
\* records stores a prediction of status Severe, Stunting or Underweight;
\* there is at most one such alert, its status is the stored status of one
\* of those 3 records, and Overweight or Normal never produces it.
C20_AlertIffOneOfThreeMostRecentIsConcerning ==
    \A r \in ReqIds :
       LET req == requests[r]
           recent == LastN(History(req), 3)
           alerts == Analysis(req).alerts
       IN  (Analyzed(req) /\ Len(History(req)) >= 2) =>
              /\ (StatusAlerts(req) # {})
                    <=> (StoredStatuses(recent) \cap SevereStatuses # {})
              /\ Cardinality(StatusAlerts(req)) <= 1
              /\ \A i \in StatusAlerts(req) :
                    /\ alerts[i].status \in StoredStatuses(recent)
                    /\ alerts[i].status \in SevereStatuses

\* ------------------------------------------------------ the ml endpoints
\* the language of a response: that of the text when it comes from the
\* adapter's static tables (no model loaded), else the language the handler
\* asked the loaded model for
ResponseLanguage(req) ==
    LET body == Val(req.response).body
        text == IF req.kind = "chatbot" THEN Val(body).answer
                ELSE Val(body).recommendation
        model == IF req.kind = "chatbot" THEN chatbot_model ELSE recommendation_model
    IN  IF ~IsNone(body) /\ model = "absent" THEN text.language ELSE req.language

\* C13: /chatbot and /recommend answer in the request's language when the
\* request gives one, and in the caller's stored preference when it gives
\* none (the field left out, or null).
C13_RequestLanguageElsePreference ==
    \A r \in ReqIds :
       LET req == requests[r]
           field == req.payload.language
       IN  (req.kind \in {"chatbot", "recommend"} /\ req.pc = "done") =>
              /\ req.language = ResponseLanguage(req)
              /\ field \in Languages => ResponseLanguage(req) = field
              /\ field \in {"omitted", "null"} =>
                    ResponseLanguage(req) = users[req.user].language

\* the finished requests to /predict and /analyze
Predicting(req) == req.kind \in {"predict", "analyze_nutrition"} /\ req.pc = "done"
NonPositive(request) ==
    \/ request.Age_Months <= 0
    \/ request.Weight_kg <= 0
    \/ ~FloatGtZero(request.Height_cm)
\* the response carries a prediction, the one the adapter returned
GotPrediction(req) ==
    LET body == Val(Val(req.response).body)
    IN  /\ Val(req.response).status_code = 200
        /\ ~IsNone(req.prediction_result)
        /\ (IF req.kind = "predict" THEN body ELSE body.prediction)
              = Val(req.prediction_result)
        /\ Val(req.prediction_result).malnutrition_status \in MalnutritionStatuses
        /\ Val(req.prediction_result).developmental_risk \in DevelopmentalRisks

\* C17: /predict and /analyze reject with 400, without invoking the
\* prediction adapter, every request whose Age_Months, Weight_kg or
\* Height_cm is 0 or less; every request that passes schema validation with
\* Age_Months >= 1, Weight_kg > 0 and Height_cm > 0 gets a prediction.
C17_NonPositiveIsRejected400 ==
    \A r \in ReqIds :
       LET req == requests[r]
       IN  Predicting(req) =>
              /\ NonPositive(req.payload) =>
                    /\ Val(req.response).status_code = 400
                    /\ IsNone(req.prediction_result)
              /\ (ValidPredictionRequest(req.payload) /\ ~NonPositive(req.payload))
                    => GotPrediction(req)

\* C17 as the code has it: a request that passes schema validation with
\* Age_Months, Weight_kg or Height_cm equal to 0 is rejected with 400, and
\* one with a value below 0 is rejected with 422 by the schema, in both
\* cases without invoking the prediction adapter; every request that passes
\* schema validation with all three above 0 gets a prediction.
C17_ZeroIs400BelowZeroIs422 ==
    \A r \in ReqIds :
       LET req == requests[r]
       IN  Predicting(req) =>
              /\ NonPositive(req.payload) =>
                    /\ Val(req.response).status_code =
                          (IF ValidPredictionRequest(req.payload) THEN 400 ELSE 422)
                    /\ IsNone(Val(req.response).body)
                    /\ IsNone(req.prediction_result)
              /\ (ValidPredictionRequest(req.payload) /\ ~NonPositive(req.payload))
                    => GotPrediction(req)
\* /analyze has rejected a request of height 0.0 while a prediction model
\* is loaded
C17_Witness ==
    \E r \in ReqIds :
       /\ requests[r].kind = "analyze_nutrition" /\ requests[r].pc = "done"
       /\ prediction_model = "loaded"
       /\ requests[r].payload.Age_Months = 24
       /\ requests[r].payload.Weight_kg = 112
       /\ requests[r].payload.Height_cm = Float(0, 0)
       /\ Val(requests[r].response).status_code = 400
       /\ IsNone(requests[r].prediction_result)

\* -------------------------------------------------------- authentication
\* C14: once POST /logout has succeeded for a token, every later request
\* that presents it to an endpoint protected by get_current_user is
\* rejected with 401, at every later time: by its revocation entry while it
\* is unexpired and as expired from its expiry on, with no instant in
\* between at which it is accepted.
C14_LoggedOutTokenIsRejected ==
    \A a \in AuthSlots :
       LET req == auth_requests[a]
       IN  (req.op = "me" /\ req.pc = "done" /\ req.revoked_before)
              => Val(req.response).status_code = 401

\* the refresh tokens POST /refresh is to honour: unexpired and unrevoked
\* when the request arrives, of a user that exists and is active
Refreshable(req) ==
    /\ req.token \in req.tokens_before
    /\ req.token.type = "refresh"
    /\ req.token.exp > req.started_at
    /\ ~req.revoked_before
    /\ \E u \in req.accounts_before : u.id = req.token.sub /\ u.is_active

\* C16: POST /refresh with an unexpired, unrevoked refresh token of an
\* existing active user returns a newly issued access token, different from
\* every token issued before, together with the same refresh token; with
\* any other token it fails with 401 and issues nothing.
C16_RefreshIssuesOnlyForGoodTokens ==
    \A a \in AuthSlots :
       LET req == auth_requests[a]
           response == Val(req.response)
       IN  (req.op = "refresh" /\ req.pc = "done") =>
              IF Refreshable(req)
              THEN /\ response.status_code = 200
                   /\ Val(response.body).refresh_token = req.token
                   /\ Val(response.body).access_token \in tokens \ req.tokens_before
                   /\ \A t \in req.tokens_before :
                         t.jti # Val(response.body).access_token.jti
                   /\ Val(response.body).access_token.type = ""
                   /\ Val(response.body).access_token.sub = req.token.sub
              ELSE /\ response.status_code = 401
                   /\ tokens = req.tokens_before

Registered(rows, email) == {u \in rows : u.email = email}
RegisterDone(req) == req.op = "register" /\ req.pc = "done"

\* C15: at most one user exists per email address after any interleaving of
\* registrations: a registration with an email already registered fails
\* with 400 and leaves the existing user unchanged, and of two concurrent
\* registrations with the same email exactly one succeeds.
C15_OneUserPerEmail ==
    /\ \A u, v \in accounts : u.email = v.email => u = v
    /\ \A a \in AuthSlots :
          LET req == auth_requests[a]
              status == Val(req.response).status_code
          IN  RegisterDone(req) =>
                 /\ status \in {201, 400}
                 /\ Registered(req.accounts_before, req.email) # {} =>
                       /\ status = 400
                       /\ Registered(accounts, req.email)
                             = Registered(req.accounts_before, req.email)
                 /\ status = 201 =>
                       \E u \in accounts : u.email = req.email /\ u.name = req.name
                 /\ req.accounts_before \subseteq accounts
    /\ \A a, b \in AuthSlots :
          LET ra == auth_requests[a]
              rb == auth_requests[b]
          IN  ( /\ a # b /\ RegisterDone(ra) /\ RegisterDone(rb)
                /\ ra.email = rb.email
                /\ Registered(ra.accounts_before, ra.email) = {}
                /\ Registered(rb.accounts_before, rb.email) = {} )
              => /\ {Val(ra.response).status_code, Val(rb.response).status_code}
                       = {201, 400}
                 /\ Cardinality(Registered(accounts, ra.email)) = 1
\* two registrations of one email under different names ran concurrently:
\* one was answered 201 and the other 400, and the user has the first's name
C15_Witness ==
    LET ra == auth_requests["a1"]
        rb == auth_requests["a2"]
    IN  /\ RegisterDone(ra) /\ RegisterDone(rb)
        /\ ra.email = rb.email /\ ra.name # rb.name
        /\ Registered(ra.accounts_before, ra.email) = {}
        /\ Registered(rb.accounts_before, rb.email) = {}
        /\ Val(ra.response).status_code = 201
        /\ Val(rb.response).status_code = 400
        /\ \A u \in Registered(accounts, ra.email) : u.name = ra.name

\* the requests of POST /{child_id}/records that have inserted their row
Inserted == {r \in DOMAIN requests :
               requests[r].kind = "records" /\ ~IsNone(requests[r].growth_record)}
\* the rows with the record_id the request's insert returned
OwnRows(r) == {g \in growth_records :
                 g.record_id = Val(requests[r].growth_record).record_id}
\* what the rule-based prediction is for the request's own body
OwnPrediction(r) ==
    LET req == requests[r]
        inserted == NewGrowthRecord(req.child_id, req.payload,
                       calculate_bmi(req.payload.weight_kg, req.payload.height_cm).value, 0)
    IN  _get_fallback_prediction(
            prediction_features_of(req.payload, TrendChild, inserted))
HoldsMeasurementsOf(g, record_data) ==
    /\ g.age_months = record_data.age_months
    /\ g.weight_kg = record_data.weight_kg
    /\ g.height_cm = record_data.height_cm
    /\ g.muac_cm = record_data.muac_cm
    /\ g.diet_diversity_score = record_data.diet_diversity_score
    /\ g.recent_infection = record_data.recent_infection
    /\ g.z_scores_percentiles = z_scores_percentiles_of(record_data)
    /\ g.bmi = Some(calculate_bmi(record_data.weight_kg, record_data.height_cm).value)

\* C18: two POST /{child_id}/records requests for one child, their steps
\* (insert, predict, attach) interleaved in any order, both succeed: each
\* has one row of its own, which holds its own body's measurements, no
\* prediction before its own attach and after it the prediction computed
\* from its own measurements, the one its 200 response carries; the two
\* rows are distinct and the table holds nothing but them
C18_ConcurrentRecordsKeepTheirOwnRowAndPrediction ==
    /\ \A r \in DOMAIN requests :
          /\ requests[r].pc # "idle" => r \in Inserted
          /\ requests[r].pc = "done" => Val(requests[r].response).status_code = 200
    /\ \A r \in Inserted :
          LET req == requests[r]
          IN  /\ Cardinality(OwnRows(r)) = 1
              /\ \A g \in OwnRows(r) :
                    /\ g.child_id = req.child_id
                    /\ HoldsMeasurementsOf(g, req.payload)
                    /\ req.pc # "done" => IsNone(g.prediction_results)
                    /\ req.pc = "done" =>
                          /\ ~IsNone(g.prediction_results)
                          /\ Val(g.prediction_results).malnutrition_status
                                = OwnPrediction(r).malnutrition_status
                          /\ Val(g.prediction_results).developmental_risk
                                = OwnPrediction(r).developmental_risk
                          /\ Val(req.response).body # None
                          /\ Val(Val(req.response).body).record_id = g.record_id
                          /\ Val(Val(req.response).body).malnutrition_status
                                = OwnPrediction(r).malnutrition_status
                          /\ Val(Val(req.response).body).developmental_risk
                                = OwnPrediction(r).developmental_risk
    /\ \A r, q \in Inserted : r # q => OwnRows(r) # OwnRows(q)
    /\ growth_records = UNION { OwnRows(r) : r \in Inserted }
\* both requests inserted before either attached (neither saw the other's
\* row when it started, and the second insert came before the first attach),
\* with bodies of different predictions, and both are answered
C18_Witness ==
    LET r1 == requests["r1"]
        r2 == requests["r2"]
    IN  /\ DOMAIN requests = ConcurrentReqIds
        /\ r1.pc = "done" /\ r2.pc = "done"
        /\ r1.kind = "records" /\ r2.kind = "records"
        /\ r1.records_before = {}
        /\ \E g \in r2.records_before : IsNone(g.prediction_results)
        /\ OwnPrediction("r1").malnutrition_status # OwnPrediction("r2").malnutrition_status
        /\ \A g \in OwnRows("r1") :
              Val(g.prediction_results).malnutrition_status
                 = OwnPrediction("r1").malnutrition_status
        /\ \A g \in OwnRows("r2") :
              Val(g.prediction_results).malnutrition_status
                 = OwnPrediction("r2").malnutrition_status

\* the loaded classifier has returned one code, in any shape
YieldedSingleCode ==
    /\ CalledPredict
    /\ prediction_model = "loaded"
    /\ Val(ml_call.behaviour).kind # "raise"
    /\ Len(Val(ml_call.behaviour).vals) = 1
SingleCode == Val(ml_call.behaviour).vals[1]
FixedRuleRisk(c) ==
    CASE c = 4 -> "High Risk"
      [] c \in {1, 2, 3} -> "At Risk"
      [] c = 0 -> "No Risk"

\* C21: whenever the loaded classifier yields a single output code c among
\* 0..4, as a scalar, a one-element list or tuple, a 1-D array or a 2-D
\* array of one column, predict_malnutrition_risk reports the status label
\* of c and the risk the fixed rule gives for c (4 High Risk; 1, 2, 3 At
\* Risk; 0 No Risk)
C21_SingleCodeGivesLabelAndRuleRisk ==
    (YieldedSingleCode /\ SingleCode \in DOMAIN malnutrition_labels) =>
        CallResult = Prediction(malnutrition_labels[SingleCode],
                                FixedRuleRisk(SingleCode))

\* the static text of the fallback for the arguments of the call on record
StaticText == _get_fallback_recommendation(ml_call.status, ml_call.risk, ml_call.language)
\* it is the requested language's table entry for a key of the table and the
\* requested language's generic message for any other pair
StaticTextFollowsTheTable ==
    (CalledRecommend /\ ml_call.language \in Languages) =>
        /\ StaticText.language = ml_call.language
        /\ <<ml_call.status, ml_call.risk>> \in RecommendationKeys =>
              /\ StaticText.source = "table"
              /\ StaticText.status = ml_call.status
              /\ StaticText.risk = ml_call.risk
        /\ <<ml_call.status, ml_call.risk>> \notin RecommendationKeys =>
              /\ StaticText.source = "generic"
              /\ StaticText.status = "" /\ StaticText.risk = ""

\* C22: the static recommendation table has exactly nine (status, risk)
\* keys, the same in the English and the Swahili variant;
\* _get_fallback_recommendation returns the requested language's table entry
\* for each key and the requested language's generic message for every
\* other pair
C22_NineKeysAndGenericOtherwise ==
    /\ Cardinality(RecommendationKeys) = 9
    /\ SwahiliRecommendationKeys = RecommendationKeys
    /\ StaticTextFollowsTheTable

\* C22, amended: the table has exactly eight keys, the same in both
\* variants: (Normal, No Risk), (Severe, High Risk) and each of Stunting,
\* Underweight, Overweight with At Risk and with High Risk; the table entry
\* of the requested language is returned for each of them and the generic
\* message of the requested language for every other pair, (Severe, At
\* Risk) and (Normal, At Risk) among them
C22_EightKeysAndGenericOtherwise ==
    /\ RecommendationKeys =
          {<<"Normal", "No Risk">>, <<"Severe", "High Risk">>}
             \cup ({"Stunting", "Underweight", "Overweight"} \X {"At Risk", "High Risk"})
    /\ Cardinality(RecommendationKeys) = 8
    /\ SwahiliRecommendationKeys = RecommendationKeys
    /\ StaticTextFollowsTheTable
\* a Swahili caller has asked for a pair of valid labels that is no key
\* (Severe with At Risk) and has the Swahili generic message
C22_Witness ==
    /\ CalledRecommend
    /\ recommendation_model = "absent"
    /\ ml_call.language = "swahili"
    /\ <<ml_call.status, ml_call.risk>> = <<"Severe", "At Risk">>
    /\ StaticText = GenericText("swahili")
    /\ CallResult = StaticText

\* the POST /{child_id}/records requests answered with success
RecordsSucceeded == {r \in DOMAIN requests :
                       /\ requests[r].kind = "records" /\ requests[r].pc = "done"
                       /\ Val(requests[r].response).status_code = 200}
ReturnedBody(r) == Val(Val(requests[r].response).body)

C24_FallbackNeverSaysSevere ==
    (CalledPredict /\ prediction_model = "absent") =>
        /\ CallResult.malnutrition_status # "Severe"
        /\ CallResult.developmental_risk # "High Risk"
        /\ <<CallResult.malnutrition_status, CallResult.developmental_risk>>
              \in { <<"Stunting", "At Risk">>, <<"Underweight", "At Risk">>,
                    <<"Overweight", "At Risk">>, <<"Normal", "No Risk">> }
\* no model; a vector with height Z 0, weight Z -3.5 and BMI 26, which
\* meets a Severe threshold and the BMI threshold, got Underweight, At Risk
C24_Witness ==
    /\ CalledPredict
    /\ prediction_model = "absent"
    /\ ml_call.features.Height_for_Age_ZScore = 0
    /\ ml_call.features.Weight_for_Age_ZScore = -35
    /\ ml_call.features.BMI = 2600
    /\ CallResult = Prediction("Underweight", "At Risk")

\* the feature of each optional measurement of the body
FeatureOf ==
    ( "weight_for_age_zscore" :> "Weight_for_Age_ZScore"
   @@ "height_for_age_zscore" :> "Height_for_Age_ZScore"
   @@ "bmi_for_age_zscore" :> "BMI_for_Age_ZScore"
   @@ "muac_for_age_zscore" :> "MUAC_for_Age_ZScore"
   @@ "weight_for_age_percentile" :> "Weight_for_Age_Percentile"
   @@ "height_for_age_percentile" :> "Height_for_Age_Percentile"
   @@ "bmi_for_age_percentile" :> "BMI_for_Age_Percentile"
   @@ "muac_for_age_percentile" :> "MUAC_for_Age_Percentile"
   @@ "muac_cm" :> "MUAC_cm" )
\* the documented default of each: MUAC 14.0, Z-score 0.0, percentile 50.0
DefaultOf(k) == IF k = "muac_cm" THEN 140 ELSE IF k \in ZScoreKeys THEN 0 ELSE 50
\* the requests of POST /{child_id}/records that have built their vector
BuiltFeatures == {r \in DOMAIN requests :
                    requests[r].kind = "records" /\ ~IsNone(requests[r].prediction_features)}

\* C25: the feature vector POST /{child_id}/records passes to the
\* prediction adapter carries, for every optional measurement the body
\* supplies (muac_cm, the four Z-scores, the four percentiles), exactly the
\* supplied value, a supplied 0 included, and the default (MUAC 14.0,
\* Z-score 0.0, percentile 50.0) only for a field the body omits; so it
\* agrees with the z_scores_percentiles stored on the record
C25_FeaturesCarryTheSuppliedValues ==
    \A r \in BuiltFeatures :
        LET req == requests[r]
            features == Val(req.prediction_features)
            stored == Val(req.growth_record).z_scores_percentiles
        IN  /\ \A k \in DOMAIN FeatureOf :
                  features[FeatureOf[k]] =
                      IF IsNone(req.payload[k]) THEN DefaultOf(k)
                      ELSE Val(req.payload[k])
            /\ ~IsNone(stored) =>
                  \A k \in DOMAIN Val(stored) : features[FeatureOf[k]] = Val(stored)[k]

\* the requests to an endpoint of get_current_user, and to /refresh, that
\* have been answered
ProtectedDone(req) == req.op = "me" /\ req.pc = "done"
RefreshDone(req) == req.op = "refresh" /\ req.pc = "done"

\* C26: a token is accepted only for the purpose it was issued for:
\* /refresh rejects every token whose type is not 'refresh', and an
\* endpoint protected by get_current_user rejects every token that carries
\* a type (a refresh token, a password-reset token) presented as the
\* bearer credential
C26_TokenServesItsPurposeOnly ==
    \A a \in AuthSlots :
       LET req == auth_requests[a]
       IN  /\ (RefreshDone(req) /\ req.token.type # "refresh")
                 => Val(req.response).status_code = 401
           /\ (ProtectedDone(req) /\ req.token.type # "")
                 => Val(req.response).status_code # 200

\* the step in which POST /logout at slot a is answered with success
LogoutSucceeds(a) ==
    /\ auth_requests[a].pc = "idle"
    /\ auth_requests'[a].op = "logout" /\ auth_requests'[a].pc = "done"
    /\ Val(auth_requests'[a].response).status_code = 200
\* a token the endpoints are to accept when the request arrives: unexpired,
\* not revoked, of a user that exists and is active
Acceptable(req) ==
    /\ req.token.exp > req.started_at
    /\ ~req.revoked_before
    /\ \E u \in req.accounts_before : u.id = req.token.sub /\ u.is_active
\* the tokens are accepted whatever else was revoked: an access token by a
\* protected endpoint, a refresh token by /refresh, which issues an
\* unexpired, unrevoked access token of the same user
AcceptedAsBefore ==
    \A a \in AuthSlots :
       LET req == auth_requests[a]
           response == Val(req.response)
       IN  /\ (ProtectedDone(req) /\ Acceptable(req)) => response.status_code = 200
           /\ (RefreshDone(req) /\ Acceptable(req) /\ req.token.type = "refresh") =>
                 /\ response.status_code = 200
                 /\ LET issued == Val(response.body).access_token
                    IN  /\ issued.sub = req.token.sub
                        /\ issued.type = ""
                        /\ issued.exp > req.started_at
                        /\ \A row \in revoked_tokens : row.jti # issued.jti

\* C27: a successful POST /logout adds exactly one revocation entry, for the
\* jti of the presented token, and changes nothing else: users, accounts,
\* children, growth records and issued tokens are unchanged, no other
\* token's revocation status changes at any instant, and every other
\* unexpired token of the user is accepted as before: /refresh with the
\* refresh token of the same login still issues a working access token
C27_LogoutRevokesThePresentedTokenOnly ==
    [][ /\ \A a \in AuthSlots :
              LogoutSucceeds(a) =>
                 LET token == auth_requests'[a].token
                 IN  /\ revoked_tokens \subseteq revoked_tokens'
                     /\ Cardinality(revoked_tokens' \ revoked_tokens) = 1
                     /\ \A row \in revoked_tokens' \ revoked_tokens :
                           row.jti = token.jti
                     /\ UNCHANGED << users, children, growth_records, accounts,
                                     tokens, clock >>
                     /\ \A t \in tokens, now \in 0 .. MaxClock :
                           t.jti # token.jti =>
                              (is_token_revoked(t.jti, now)' = is_token_revoked(t.jti, now))
        /\ AcceptedAsBefore' ]_vars
\* the access token of a login has been revoked by a logout, and then
\* /refresh with the refresh token of that login has issued an access token
C27_Witness ==
    \E a \in AuthSlots, row \in revoked_tokens :
       LET req == auth_requests[a]
       IN  /\ RefreshDone(req)
           /\ Val(req.response).status_code = 200
           /\ req.token.jti = row.jti + 1
           /\ req.token.sub = row.user_id
           /\ \E t \in req.tokens_before : t.jti = row.jti /\ t.type = ""
           /\ row.expires_at > req.started_at

\* the accounts whose is_active flag is false
InactiveIds == {u.id : u \in {x \in accounts : ~x.is_active}}
InactiveEmails == {u.email : u \in {x \in accounts : ~x.is_active}}
\* what the requests of such a user have got, in the state they leave
DeactivatedIsShutOut ==
    \A a \in AuthSlots :
       LET req == auth_requests[a]
           status_code == Val(req.response).status_code
       IN  req.pc = "done" =>
             /\ (req.op = "login" /\ req.email \in InactiveEmails) =>
                   status_code = 401 /\ tokens = req.tokens_before
             /\ (req.op = "refresh" /\ req.token.sub \in InactiveIds) =>
                   status_code = 401 /\ tokens = req.tokens_before
             /\ ( /\ req.op = "reset_password"
                  /\ req.token.type = "password_reset"
                  /\ EmailOf(req.token.sub) \in InactiveEmails ) =>
                   status_code # 200 /\ accounts = req.accounts_before
             /\ (req.op = "request_password_reset" /\ req.email \in InactiveEmails) =>
                   tokens = req.tokens_before
             /\ (req.op = "register_child" /\ req.token.sub \in InactiveIds) =>
                   /\ status_code = 401
                   /\ IsNone(Val(req.response).body)

\* C28: while a user's is_active flag is false, the user cannot log in,
\* gets no access token from /refresh, cannot reset the password, and every
\* request with the user's unexpired, unrevoked access token to an endpoint
\* protected by get_current_user is answered 401, with no child or growth
\* record in the answer and none changed
C28_InactiveUserIsShutOut ==
    [][ /\ DeactivatedIsShutOut'
        /\ \A a \in AuthSlots :
              ( /\ auth_requests'[a].pc = "done" /\ auth_requests[a].pc # "done"
                /\ auth_requests'[a].op \in {"login", "refresh", "reset_password",
                                            "register_child"}
                /\ Val(auth_requests'[a].response).status_code # 200
                /\ Val(auth_requests'[a].response).status_code # 201 )
              => UNCHANGED << children, growth_records, accounts, tokens >> ]_vars
\* the deactivated user's access token, unexpired and not revoked, was
\* presented to POST /children/register and refused as inactive
C28_Witness ==
    \E a \in AuthSlots :
       LET req == auth_requests[a]
       IN  /\ req.op = "register_child" /\ req.pc = "done"
           /\ req.token.type = ""
           /\ req.token.sub \in InactiveIds
           /\ req.token.exp > req.started_at
           /\ ~req.revoked_before
           /\ Val(req.response) = Response(401, "User account is inactive", None)
           /\ children = {DeactivatedChild}

\* the table entry of the pair in the language of the user's profile
PairSpecific(u, prediction) ==
    TableText(users[u].language, prediction.malnutrition_status,
              prediction.developmental_risk)
IsKey(prediction) ==
    <<prediction.malnutrition_status, prediction.developmental_risk>>
        \in RecommendationKeys \cap SwahiliRecommendationKeys

\* C29: with no prediction model and no recommendation model loaded, for
\* every valid input the (status, risk) pair of predict_malnutrition_risk is
\* a key of the recommendation table, and /analyze and POST
\* /{child_id}/records return the recommendation of that pair in the
\* caller's language, never the generic message
C29_FallbackPairAlwaysHasItsRecommendation ==
    (prediction_model = "absent" /\ recommendation_model = "absent") =>
       \A r \in DOMAIN requests :
          LET req == requests[r]
          IN  /\ ( /\ req.kind = "analyze_nutrition" /\ req.pc = "done"
                   /\ Val(req.response).status_code = 200 ) =>
                    LET body == Val(Val(req.response).body)
                    IN  /\ IsKey(body.prediction)
                        /\ body.recommendation = PairSpecific(req.user, body.prediction)
                        /\ body.recommendation.source = "table"
              /\ (req.kind = "records" /\ ~IsNone(req.recommendations_text)) =>
                    /\ IsKey(Val(req.prediction_result))
                    /\ Val(req.recommendations_text)
                          = PairSpecific(req.user, Val(req.prediction_result))
                    /\ Val(req.recommendations_text).source = "table"
              /\ ( /\ req.kind = "records" /\ req.pc = "done"
                   /\ Val(req.response).status_code = 200 ) =>
                    LET body == Val(Val(req.response).body)
                    IN  /\ body.recommendations # <<>>
                        /\ \A i \in DOMAIN body.recommendations :
                              body.recommendations[i].text
                                 = PairSpecific(req.user,
                                      Prediction(body.malnutrition_status,
                                                 body.developmental_risk))
\* a Swahili-speaking user's /analyze for a child with height Z -3.5 has
\* returned Stunting, At Risk and the Swahili table entry of that pair
C29_Witness ==
    \E r \in DOMAIN requests :
       LET req == requests[r]
       IN  /\ req.kind = "analyze_nutrition" /\ req.pc = "done"
           /\ users[req.user].language = "swahili"
           /\ Val(req.response).status_code = 200
           /\ Val(Val(req.response).body).prediction = Prediction("Stunting", "At Risk")
           /\ Val(Val(req.response).body).recommendation
                 = TableText("swahili", "Stunting", "At Risk")

\* the GET /{child_id}/history requests answered with success
HistoryRead == {r \in DOMAIN requests :
                  /\ requests[r].kind = "history" /\ requests[r].pc = "done"
                  /\ Val(requests[r].response).status_code = 200}
\* the child's rows when the request read them
RowsRead(r) == {g \in requests[r].records_before : g.child_id = requests[r].child_id}

\* C30: GET /{child_id}/history for an owned child returns all of the
\* child's growth records, each once, from the most recently recorded to
\* the least, total_records equal to their number, and latest_prediction
\* equal to the prediction_results of the most recently recorded record:
\* null when that record has no prediction, even if an older record has one
C30_HistoryIsNewestFirstWithItsPrediction ==
    \A r \in HistoryRead :
        LET body == Val(Val(requests[r].response).body)
            records == body.growth_records
        IN  /\ Owns(requests[r].user, requests[r].child_id)
            /\ {records[i] : i \in DOMAIN records} = RowsRead(r)
            /\ Len(records) = Cardinality(RowsRead(r))
            /\ \A i, j \in DOMAIN records :
                  i < j => records[i].recorded_at >= records[j].recorded_at
            /\ body.total_records = Len(records)
            /\ records = <<>> => IsNone(body.latest_prediction)
            /\ records # <<>> =>
                  /\ \A g \in RowsRead(r) : g.recorded_at <= records[1].recorded_at
                  /\ body.latest_prediction = records[1].prediction_results
\* the history was read when the newest record, recorded after all others,
\* had no prediction and an older one had: latest_prediction is null
C30_Witness ==
    \E r \in HistoryRead :
        LET body == Val(Val(requests[r].response).body)
            records == body.growth_records
        IN  /\ Len(records) >= 2
            /\ \A i \in 2 .. Len(records) :
                  records[i].recorded_at < records[1].recorded_at
            /\ IsNone(records[1].prediction_results)
            /\ \E i \in 2 .. Len(records) : ~IsNone(records[i].prediction_results)
            /\ IsNone(body.latest_prediction)
            /\ body.total_records = Len(records)


====
